---- MODULE Spec2Model ----
(***************************************************************************)
(* Model of the agentic tool-orchestration engine:                         *)
(*   src/agents/mcp_agent.py     MCPAgent.think_and_act and its helpers    *)
(*   src/agents/base_agent.py    BaseAgent._get_llm_response               *)
(*   src/utils/logger.py         log_async_generator                       *)
(*   src/tools/base_tool.py      ToolRegistry.get_tool, safe_execute       *)
(*   src/mcp_services/modern_mcp_server.py   MCPClient                     *)
(*                                                                         *)
(* Text returned by the completion service is a sequence of lexemes        *)
(* (tokens).  A token is a record [t |-> kind, v |-> spelling].            *)
(* Python values produced by json.loads are records                        *)
(*   [k |-> kind, a |-> atom, c |-> children]                              *)
(* with kind in {"null","bool","num","str","arr","obj"}.                   *)
(***************************************************************************)
EXTENDS Integers, Sequences, FiniteSets, TLC

\* ------------------------------------------------------------------------
\* Bounds of the model
\* ------------------------------------------------------------------------
\* largest value of MCPAgent.max_iterations a caller sets before a run
MaxIterations == 3

\* ------------------------------------------------------------------------
\* Lexemes of a completion text
\* ------------------------------------------------------------------------
Pn(c) == [t |-> "punct", v |-> c]
St(w) == [t |-> "str", v |-> w]
Nm(d) == [t |-> "num", v |-> d]
Lt(l) == [t |-> "lit", v |-> l]
Wd(w) == [t |-> "word", v |-> w]
WS == [t |-> "ws", v |-> " "]
\* the three-backquote code fence marker
FENCE == [t |-> "fence", v |-> "fence"]

\* ------------------------------------------------------------------------
\* Python values (the result of json.loads)
\* ------------------------------------------------------------------------
EmptyMap == [x \in {} |-> 0]
JNull == [k |-> "null", a |-> "null", c |-> <<>>]
JBool(b) == [k |-> "bool", a |-> b, c |-> <<>>]
JNum(d) == [k |-> "num", a |-> d, c |-> <<>>]
JStr(w) == [k |-> "str", a |-> w, c |-> <<>>]
JArr(es) == [k |-> "arr", a |-> "", c |-> es]
JObj(m) == [k |-> "obj", a |-> "", c |-> m]

MapPut(m, key, val) == [x \in (DOMAIN m) \cup {key} |-> IF x = key THEN val ELSE m[x]]

HasKey(v, key) == v.k = "obj" /\ key \in DOMAIN v.c

\* dict.get(key, default)
DictGet(v, key, default) == IF key \in DOMAIN v.c THEN v.c[key] ELSE default

\* Python truthiness: None, False, 0, "", [] and {} are falsy
Truthy(v) ==
    CASE v.k = "null" -> FALSE
      [] v.k = "bool" -> v.a = "true"
      [] v.k = "num" -> v.a # "0"
      [] v.k = "str" -> v.a # ""
      [] v.k = "arr" -> Len(v.c) > 0
      [] v.k = "obj" -> DOMAIN v.c # {}

\* (needle in haystack) for two Python strings, over the strings of the model:
\* the only model string that properly contains other model strings is
\* "type tool_name"; the empty string is contained in every string.
StrContains(hay, needle) ==
    \/ hay = needle
    \/ needle = ""
    \/ hay = "type tool_name" /\ needle \in {"type", "tool_name"}

\* ------------------------------------------------------------------------
\* json.loads over a token sequence
\* ------------------------------------------------------------------------
PFail == [ok |-> FALSE, val |-> JNull, rest |-> <<>>]
POk(v, r) == [ok |-> TRUE, val |-> v, rest |-> r]

RECURSIVE SkipWs(_)
SkipWs(s) == IF Len(s) > 0 /\ Head(s).t = "ws" THEN SkipWs(Tail(s)) ELSE s

RECURSIVE ParseValue(_), ParseMembers(_, _), ParseElements(_, _)

ParseValue(s0) ==
    LET s == SkipWs(s0) IN
    IF Len(s) = 0 THEN PFail
    ELSE LET h == Head(s)
             r == SkipWs(Tail(s))
         IN CASE h.t = "str" -> POk(JStr(h.v), Tail(s))
              [] h.t = "num" -> POk(JNum(h.v), Tail(s))
              [] h.t = "lit" -> POk(IF h.v = "null" THEN JNull ELSE JBool(h.v), Tail(s))
              [] h = Pn("{") ->
                    IF Len(r) > 0 /\ Head(r) = Pn("}")
                    THEN POk(JObj(EmptyMap), Tail(r))
                    ELSE ParseMembers(r, EmptyMap)
              [] h = Pn("[") ->
                    IF Len(r) > 0 /\ Head(r) = Pn("]")
                    THEN POk(JArr(<<>>), Tail(r))
                    ELSE ParseElements(r, <<>>)
              [] OTHER -> PFail

\* members of an object after "{": "key" : value ( , "key" : value )* "}"
\* a repeated key keeps the last value
ParseMembers(s0, m) ==
    LET s == SkipWs(s0) IN
    IF Len(s) = 0 \/ Head(s).t # "str" THEN PFail
    ELSE LET key == Head(s).v
             s1 == SkipWs(Tail(s))
         IN IF Len(s1) = 0 \/ Head(s1) # Pn(":") THEN PFail
            ELSE LET pv == ParseValue(Tail(s1))
                     s2 == SkipWs(pv.rest)
                 IN IF ~pv.ok \/ Len(s2) = 0 THEN PFail
                    ELSE IF Head(s2) = Pn("}") THEN POk(JObj(MapPut(m, key, pv.val)), Tail(s2))
                    ELSE IF Head(s2) = Pn(",") THEN ParseMembers(Tail(s2), MapPut(m, key, pv.val))
                    ELSE PFail

\* elements of an array after "[": value ( , value )* "]"
ParseElements(s0, es) ==
    LET pv == ParseValue(s0)
        s2 == SkipWs(pv.rest)
    IN IF ~pv.ok \/ Len(s2) = 0 THEN PFail
       ELSE IF Head(s2) = Pn("]") THEN POk(JArr(Append(es, pv.val)), Tail(s2))
       ELSE IF Head(s2) = Pn(",") THEN ParseElements(Tail(s2), Append(es, pv.val))
       ELSE PFail

\* json.loads(text): ok = FALSE stands for json.JSONDecodeError
JsonLoads(s) ==
    LET pv == ParseValue(s) IN
    IF pv.ok /\ Len(SkipWs(pv.rest)) = 0
    THEN [ok |-> TRUE, val |-> pv.val]
    ELSE [ok |-> FALSE, val |-> JNull]

\* ------------------------------------------------------------------------
\* MCPAgent._extract_json_from_response
\* ------------------------------------------------------------------------
\* str.find / str.rfind of a one-lexeme needle; positions are 1-based and
\* 0 stands for -1 (not found)
Find(s, tok) ==
    IF \E i \in 1..Len(s) : s[i] = tok
    THEN CHOOSE i \in 1..Len(s) : s[i] = tok /\ \A j \in 1..(i-1) : s[j] # tok
    ELSE 0

RFind(s, tok) ==
    IF \E i \in 1..Len(s) : s[i] = tok
    THEN CHOOSE i \in 1..Len(s) : s[i] = tok /\ \A j \in (i+1)..Len(s) : s[j] # tok
    ELSE 0

RECURSIVE RStripWs(_)
RStripWs(s) == IF Len(s) > 0 /\ s[Len(s)].t = "ws" THEN RStripWs(SubSeq(s, 1, Len(s) - 1)) ELSE s

\* str.strip()
Strip(s) == RStripWs(SkipWs(s))

\* cleaned.startswith(fence + "json"), cleaned[7:]; startswith(fence); endswith(fence)
StartsWithFenceJson(s) == Len(s) >= 2 /\ s[1] = FENCE /\ s[2] = Wd("json")
StartsWithFence(s) == Len(s) >= 1 /\ s[1] = FENCE
EndsWithFence(s) == Len(s) >= 1 /\ s[Len(s)] = FENCE

_extract_json_from_response(response) ==
    LET start_index == Find(response, Pn("{"))
        end_index == RFind(response, Pn("}"))
        cleaned0 == Strip(response)
        cleaned1 == IF StartsWithFenceJson(cleaned0) THEN SubSeq(cleaned0, 3, Len(cleaned0)) ELSE cleaned0
        cleaned2 == IF StartsWithFence(cleaned1) THEN Tail(cleaned1) ELSE cleaned1
        cleaned3 == IF EndsWithFence(cleaned2) THEN SubSeq(cleaned2, 1, Len(cleaned2) - 1) ELSE cleaned2
    IN IF start_index # 0 /\ end_index # 0 /\ end_index > start_index
       THEN SubSeq(response, start_index, end_index)
       ELSE Strip(cleaned3)

\* ------------------------------------------------------------------------
\* MCPAgent._decide_next_action, from the completion text on
\* ------------------------------------------------------------------------
\* ASCII renderings of the fixed messages of mcp_agent.py
APOLOGY == "error while processing, cannot continue"
NO_ANSWER == "no answer generated"
MAX_ITER_MESSAGE == "max iterations reached, no conclusion"
INVALID_ACTION == "invalid action"
FINAL_ANSWER_NAME == "final_answer"

Obj1(k1, v1) == JObj(MapPut(EmptyMap, k1, v1))
Obj2(k1, v1, k2, v2) == JObj(MapPut(MapPut(EmptyMap, k1, v1), k2, v2))
Obj3(k1, v1, k2, v2, k3, v3) == JObj(MapPut(MapPut(MapPut(EmptyMap, k1, v1), k2, v2), k3, v3))

FallbackActionMisnamed ==
    Obj3("type", JStr("tool_call"),
         "tool_name", JStr(FINAL_ANSWER_NAME),
         "parameters", Obj1("text", JStr(APOLOGY)))

\* the action synthesized in the except branch
FallbackAction ==
    Obj3("type", JStr("tool_call"),
         "tool_name", JStr(FINAL_ANSWER_NAME),
         "parameters", Obj1("answer", JStr(APOLOGY)))

\* (key in action): TypeError for None, bool and numbers
PyInRaises(action) == action.k \in {"null", "bool", "num"}

PyIn(key, action) ==
    CASE action.k = "obj" -> key \in DOMAIN action.c
      [] action.k = "arr" -> \E i \in 1..Len(action.c) : action.c[i].k = "str" /\ action.c[i].a = key
      [] action.k = "str" -> StrContains(action.a, key)
      [] OTHER -> FALSE

\* result of the try block of _decide_next_action on a completion text:
\* exc = "none" and the returned value, or the exception that escapes
ParseDecision(response_text) ==
    LET cleaned_json == _extract_json_from_response(response_text)
        loaded == JsonLoads(cleaned_json)
        action == loaded.val
    IN IF ~loaded.ok THEN [exc |-> "none", ret |-> FallbackAction]
       ELSE IF PyInRaises(action) THEN [exc |-> "TypeError", ret |-> JNull]
       ELSE IF PyIn("action", action)
            THEN IF action.k = "obj"
                 THEN [exc |-> "none", ret |-> action.c["action"]]
                 ELSE [exc |-> "TypeError", ret |-> JNull]
       ELSE IF PyIn("type", action) /\ PyIn("tool_name", action)
            THEN [exc |-> "none", ret |-> action]
       ELSE [exc |-> "none", ret |-> FallbackAction]

\* ------------------------------------------------------------------------
\* Inputs: completion texts, tool names, tool outcomes
\* ------------------------------------------------------------------------
NONE == "<None>"

\* builders of JSON text
Br(ms) == <<Pn("{")>> \o ms \o <<Pn("}")>>
KV(key, vs) == <<St(key), Pn(":")>> \o vs
Cm == <<Pn(",")>>
ActionText(ty, name, params) ==
    Br(KV("type", ty) \o Cm \o KV("tool_name", name) \o Cm \o KV("parameters", params))
Nested(a) == Br(KV("action", a))
Fenced(t) == <<FENCE, Wd("json"), WS>> \o t \o <<WS, FENCE>>
CallText(name, params) == Nested(ActionText(<<St("tool_call")>>, <<St(name)>>, params))

\* texts of the Decide step that are not JSON at all
MalformedTexts ==
    { <<>>,
      <<Wd("prose"), WS, Wd("prose")>>,
      <<Pn("{"), St("action"), Pn(":"), Pn("{"), St("type")>>,
      <<Pn("{"), St("action"), Pn(":"), Pn("{"), St("type"), Pn(":"), St("tool_call"), Pn("}")>>,
      <<FENCE, Wd("json"), WS, Wd("prose"), WS, FENCE>>,
      <<FENCE, Wd("json"), FENCE>>,
      <<Pn("}"), Pn("{")>>,
      Br(<<Nm("42")>>),
      Br(KV("action", <<Nm("42")>>)) \o <<WS, Wd("prose"), Pn("}")>> }

\* brace-free texts that are JSON but not an object
NonObjectTexts ==
    { <<Nm("42")>>, <<Lt("null")>>, <<St("action")>>, <<St("hi")>>, <<St("type tool_name")>>,
      <<Pn("["), St("action"), Pn("]")>>,
      <<Pn("["), St("type"), Pn(","), St("tool_name"), Pn("]")>>,
      <<FENCE, Wd("json"), WS, Nm("42"), WS, FENCE>> }

\* JSON objects that lack required fields or carry ill-typed ones
DefectiveTexts ==
    { Br(<<>>),
      Br(KV("type", <<St("tool_call")>>)),
      Br(KV("tool_name", <<St("echo")>>)),
      Nested(Br(<<>>)),
      Nested(<<Lt("null")>>),
      Nested(<<St("echo")>>),
      Nested(Br(KV("tool_name", <<St("echo")>>))),
      Nested(Br(KV("type", <<St("tool_call")>>))),
      Nested(ActionText(<<St("other")>>, <<St("echo")>>, Br(<<>>))),
      Nested(ActionText(<<St("tool_call")>>, <<Nm("42")>>, Br(<<>>))),
      Nested(ActionText(<<St("tool_call")>>, <<St("echo")>>, <<St("hi")>>)),
      CallText(FINAL_ANSWER_NAME, <<St("hi")>>),
      CallText(FINAL_ANSWER_NAME, Br(KV("answer", <<Nm("42")>>))),
      CallText(FINAL_ANSWER_NAME, Br(KV("answer", <<Pn("["), Pn("]")>>))) }

\* well-formed decisions: nested and flat, bare, fenced and inside commentary
WellFormedTexts ==
    { CallText("echo", Br(KV("text", <<St("hi")>>))),
      Fenced(CallText("echo", Br(KV("text", <<St("hi")>>)))),
      ActionText(<<St("tool_call")>>, <<St("echo")>>, Br(KV("text", <<St("hi")>>))),
      <<Wd("prose"), WS>> \o CallText("remote_search", Br(<<>>)) \o <<WS, Wd("prose")>>,
      CallText(FINAL_ANSWER_NAME, Br(KV("answer", <<St("hi")>>))),
      CallText(FINAL_ANSWER_NAME, Br(<<>>)) }

DecideTexts == MalformedTexts \cup NonObjectTexts \cup DefectiveTexts \cup WellFormedTexts

\* texts of the Think step; they are never parsed
ThinkTexts == {"plan"}

\* generate_completion: a failure report, or a text
LLMFailure == [success |-> FALSE, response |-> <<>>]
DecideResponses == {LLMFailure} \cup { [success |-> TRUE, response |-> t] : t \in DecideTexts }
ThinkResponses == { [success |-> FALSE, response |-> ""] } \cup { [success |-> TRUE, response |-> t] : t \in ThinkTexts }

\* tool_registry.tools of the process, and the catalog of the remote server
LocalTools == {"echo"}
RemoteTools == {"remote_search", FINAL_ANSWER_NAME}

Queries == {"q1"}

\* ------------------------------------------------------------------------
\* State
\* ------------------------------------------------------------------------
\* calls of think_and_act on the one engine instance, and those of them
\* that run in Spec
AllRuns == {1, 2}
RunIds == {1}

VARIABLES
    max_iterations,        \* MCPAgent.max_iterations
    current_iteration,     \* MCPAgent.current_iteration
    conversation_context,  \* MCPAgent.conversation_context
    streaming_enabled,     \* MCP_CONFIG["streaming_enabled"]
    pc,                    \* per run: suspension point of the think_and_act generator
    thought,               \* per run: local thought
    response_text,         \* per run: completion text last seen by _decide_next_action
    decide_exc,            \* per run: exception that escaped the last _decide_next_action
                           \* ("unset" before the first call, "none" when it returned)
    action,                \* per run: local action
    tool_result,           \* per run: local tool_result
    produced,              \* per run: items yielded by think_and_act
    delivered,             \* per run: items yielded by logged_generator to the caller
    count,                 \* per run: logged_generator count
    finished,              \* per run: logged_generator has returned
    llm_calls,             \* per run: calls of _get_llm_response issued
    tool_calls,            \* per run: calls of _execute_tool issued
    unparsable_only,       \* per run: every completion so far was a text, and every
                           \* Decide text so far was rejected by json.loads
    connected,             \* MCPClient.connected
    session,               \* MCPClient.session (NONE, or the transport it runs on)
    client_context,        \* MCPClient.client_context (NONE, or a transport)
    session_context,       \* MCPClient.session_context (NONE, or a transport)
    transport,             \* per transport: "none", "opening", "open", "failed", "closed"
    cpc,                   \* per caller of the client: the await it is suspended at
    op,                    \* per caller: the operation it called
    ret,                   \* per caller: what list_tools or call_tool returned to it
    raised,                \* per caller: the exception connect or get_session raised
    available_tools,       \* MCPAgent.available_tools
    probe,                 \* one call of safe_execute: the tool, the parameters, the handler
    reply,                 \* what that call of safe_execute returned
    registry,              \* ToolRegistry.tools, as the items of the dict in order
    latest,                \* per tool name: the tool the last register call gave
    server_tools,          \* ModernMCPServer.tools (its keys)
    tool_handlers,         \* ModernMCPServer.tool_handlers (its keys)
    sessions,              \* ModernMCPServer.sessions (its keys)
    request,               \* the request the server is answering
    frames,                \* the frames generate_stream has yielded for it
    response,              \* the answer of the call route to it
    spc                    \* where the route is: "idle", "sent_started", ...

agent_vars == <<max_iterations, current_iteration, conversation_context, streaming_enabled,
                pc, thought, response_text, decide_exc, action, tool_result,
                produced, delivered, count, finished, llm_calls, tool_calls,
                unparsable_only>>

client_vars == <<connected, session, client_context, session_context, transport,
                 cpc, op, ret, raised, available_tools>>

call_vars == <<probe, reply>>

server_vars == <<registry, latest, server_tools, tool_handlers, sessions, request,
                 frames, response, spc>>

vars == <<agent_vars, client_vars, call_vars, server_vars>>

\* coroutines that use the one module-level mcp_client; the transport a
\* caller opens in connect is named after the caller
Callers == {"a", "b"}

NoReturn == [exc |-> "none", outcome |-> "none", success |-> FALSE, error |-> NONE,
             tools |-> <<>>]

\* no call of safe_execute has been made
NoProbe ==
    [tool |-> [name |-> NONE, parameters |-> EmptyMap, required_parameters |-> {}],
     parameters |-> JNull, handler |-> "none"]
NoReply == [payload |-> JNull, handler_kwargs |-> JNull]

CallInit ==
    /\ probe = NoProbe
    /\ reply = NoReply

\* no request has reached the server
NoRequest == [route |-> "none", tool_name |-> NONE, session_id |-> NONE, valid |-> TRUE]
NoResponse == [status |-> "none", success |-> FALSE, error |-> NONE, result |-> JNull]

\* ToolRegistry.__init__ and ModernMCPServer.__init__
ServerInit ==
    /\ registry = <<>>
    /\ latest = [n \in {} |-> NONE]
    /\ server_tools = {}
    /\ tool_handlers = {}
    /\ sessions = {}
    /\ request = NoRequest
    /\ frames = <<>>
    /\ response = NoResponse
    /\ spc = "idle"

\* MCPClient.__init__ and MCPAgent.__init__
ClientInit ==
    /\ connected = FALSE
    /\ session = NONE
    /\ client_context = NONE
    /\ session_context = NONE
    /\ transport = [t \in Callers |-> "none"]
    /\ cpc = [c \in Callers |-> "idle"]
    /\ op = [c \in Callers |-> NONE]
    /\ ret = [c \in Callers |-> NoReturn]
    /\ raised = [c \in Callers |-> "none"]
    /\ available_tools = <<>>

NoResult ==
    [success |-> FALSE, via |-> "none", error |-> NONE, tool_name |-> NONE,
     payload |-> JNull, handler_kwargs |-> JNull]

\* ThoughtProcess
Ev(type, content, tool_name, parameters, result) ==
    [type |-> type, content |-> content, tool_name |-> tool_name,
     parameters |-> parameters, result |-> result]

\* one entry of chat_history (ConversationContext.add_message)
Message(role, text, tool_name, result) ==
    [role |-> role, content |-> [text |-> text, tool_name |-> tool_name, result |-> result]]

ContextKept(user_query) == [conversation_context EXCEPT !.user_query = user_query]

\* ConversationContext(...) as constructed at the start of think_and_act
NewContext(user_query) ==
    [user_query |-> user_query,
     document_file_path |-> NONE,
     chat_history |-> <<>>,
     max_iterations |-> max_iterations,
     current_iteration |-> 0,
     is_completed |-> FALSE,
     final_answer |-> JNull]

\* MCPAgent.conversation_context before the first run (None)
NoContext ==
    [user_query |-> NONE,
     document_file_path |-> NONE,
     chat_history |-> <<>>,
     max_iterations |-> 0,
     current_iteration |-> 0,
     is_completed |-> FALSE,
     final_answer |-> JNull]

add_message(ctx, msg) == [ctx EXCEPT !.chat_history = Append(@, msg)]

\* the str name carried by a tool_name value, NONE for None
NameOf(v) == IF v.k = "str" THEN v.a ELSE NONE

TerminalTypes == {"final_answer", "error"}

\* ------------------------------------------------------------------------
\* think_and_act, lines 158-187: what the loop does with a decided action
\* ------------------------------------------------------------------------
\* kind "invalid": the error event of line 159 and break
\* kind "raise":   an exception reaches the except clause of line 220
\* kind "final":   the final_answer branch, lines 166-177
\* kind "tool":    the tool_call event of line 182
ActOnDispatching(act) ==
    LET base == [kind |-> "invalid", exc |-> "none", completed |-> FALSE,
                 final_answer |-> JNull, tool_name |-> JNull, parameters |-> JNull]
        tool_name == DictGet(act, "tool_name", JNull)
        parameters == DictGet(act, "parameters", JObj(EmptyMap))
    IN IF ~Truthy(act) THEN base
       ELSE IF act.k # "obj" THEN [base EXCEPT !.kind = "raise", !.exc = "AttributeError"]
       ELSE IF ~(DictGet(act, "type", JNull).k = "str" /\ DictGet(act, "type", JNull).a = "tool_call")
            THEN base
       ELSE IF tool_name.k \notin {"str", "null"} \/ parameters.k \notin {"obj", "null"}
            THEN [base EXCEPT !.kind = "raise", !.exc = "ValidationError"]
       ELSE [base EXCEPT !.kind = "tool", !.tool_name = tool_name, !.parameters = parameters]

ActOn(act) ==
    LET base == [kind |-> "invalid", exc |-> "none", completed |-> FALSE,
                 final_answer |-> JNull, tool_name |-> JNull, parameters |-> JNull]
        tool_name == DictGet(act, "tool_name", JNull)
        parameters == DictGet(act, "parameters", JObj(EmptyMap))
        answer == DictGet(parameters, "answer", JStr(NO_ANSWER))
    IN IF ~Truthy(act) THEN base
       ELSE IF act.k # "obj" THEN [base EXCEPT !.kind = "raise", !.exc = "AttributeError"]
       ELSE IF ~(DictGet(act, "type", JNull).k = "str" /\ DictGet(act, "type", JNull).a = "tool_call")
            THEN base
       ELSE IF tool_name.k = "str" /\ tool_name.a = FINAL_ANSWER_NAME
            THEN IF parameters.k # "obj"
                 THEN [base EXCEPT !.kind = "raise", !.exc = "AttributeError"]
                 ELSE IF answer.k \in {"null", "bool", "num"}
                 THEN [base EXCEPT !.kind = "raise", !.exc = "TypeError",
                                   !.completed = TRUE, !.final_answer = answer]
                 ELSE IF answer.k # "str"
                 THEN [base EXCEPT !.kind = "raise", !.exc = "ValidationError",
                                   !.completed = TRUE, !.final_answer = answer]
                 ELSE [base EXCEPT !.kind = "final", !.completed = TRUE, !.final_answer = answer]
       ELSE IF tool_name.k \notin {"str", "null"} \/ parameters.k \notin {"obj", "null"}
            THEN [base EXCEPT !.kind = "raise", !.exc = "ValidationError"]
       ELSE [base EXCEPT !.kind = "tool", !.tool_name = tool_name, !.parameters = parameters]

\* ------------------------------------------------------------------------
\* BaseTool.safe_execute
\* ------------------------------------------------------------------------
\* a tool result: success, the path that produced it (via), the error entry
\* (NONE when the dict has none) and the tool_name entry (NONE when absent);
\* for a local tool also the dict safe_execute returns (payload) and the
\* keyword arguments execute was called with (JNull: it was not called)
Result(success, via, error, tool_name) ==
    [success |-> success, via |-> via, error |-> error, tool_name |-> tool_name,
     payload |-> JNull, handler_kwargs |-> JNull]

\* what the handler (BaseTool.execute) of a local tool does in one call: it
\* returns a dict, returns a value that is not a dict, returns a dict that
\* declares success = False with an error, or raises
HandlerOutcomes == {"payload", "output", "declared_failure", "raise"}

\* ToolParameterType
ParameterTypes == {"string", "number", "integer", "boolean", "array", "object"}

\* ToolParameter(type, required, default)
ParamDef(type, required, default) ==
    [type |-> type, required |-> required, default |-> default]

\* a tool: get_name, get_parameters and get_required_parameters
Tool(name, parameters, required_parameters) ==
    [name |-> name, parameters |-> parameters,
     required_parameters |-> required_parameters]

\* the local tool echo(text)
EchoTool ==
    Tool("echo", [p \in {"text"} |-> ParamDef("string", TRUE, JNull)], {"text"})

\* DocumentParserTool (src/tools/document_tools.py)
DocumentParserTool ==
    Tool("document_parser",
         [p \in {"file_path", "extract_tables", "extract_images"} |->
            IF p = "file_path" THEN ParamDef("string", TRUE, JNull)
            ELSE ParamDef("boolean", FALSE, JBool("false"))],
         {"file_path"})

\* the tool registered under a name; any other tool declares no parameter
ToolNamed(name) ==
    CASE name = "echo" -> EchoTool
      [] name = "document_parser" -> DocumentParserTool
      [] OTHER -> Tool(name, EmptyMap, {})

\* get_required_parameters of the local tools
RequiredParameters(name) == ToolNamed(name).required_parameters

\* the int and float literals of the model; the float written for an int
\* and the int a float truncates to
IntLiterals == {"0", "1", "3", "42"}
FloatLiterals == {"0.0", "1.0", "3.0", "42.0", "3.5"}

FloatOfInt(a) ==
    CASE a = "0" -> "0.0" [] a = "1" -> "1.0" [] a = "3" -> "3.0" [] a = "42" -> "42.0"

TruncOfFloat(a) ==
    CASE a = "0.0" -> "0" [] a = "1.0" -> "1" [] a = "3.0" -> "3" [] a = "42.0" -> "42"
      [] a = "3.5" -> "3"

\* a conversion that returned value v, and one that raised exc
Converted(v) == [exc |-> "none", value |-> v]
Raised(exc) == [exc |-> exc, value |-> JNull]

\* str(value)
PyStr(v) ==
    CASE v.k = "str" -> v.a
      [] v.k = "num" -> v.a
      [] v.k = "bool" -> IF v.a = "true" THEN "True" ELSE "False"
      [] v.k = "null" -> "None"
      [] v.k = "arr" -> IF Len(v.c) = 0 THEN "[]" ELSE "[...]"
      [] v.k = "obj" -> IF DOMAIN v.c = {} THEN "{}" ELSE "{...}"

\* str.lower(), over the strings of the model
Lower(w) ==
    CASE w = "True" -> "true" [] w = "False" -> "false" [] w = "Yes" -> "yes"
      [] w = "ON" -> "on" [] OTHER -> w

\* int(value)
PyInt(v) ==
    CASE v.k = "str" -> IF v.a \in IntLiterals THEN Converted(JNum(v.a))
                        ELSE Raised("ValueError")
      [] v.k = "num" -> IF v.a \in IntLiterals THEN Converted(v)
                        ELSE Converted(JNum(TruncOfFloat(v.a)))
      [] v.k = "bool" -> Converted(JNum(IF v.a = "true" THEN "1" ELSE "0"))
      [] OTHER -> Raised("TypeError")

\* float(value)
PyFloat(v) ==
    CASE v.k = "str" -> IF v.a \in IntLiterals THEN Converted(JNum(FloatOfInt(v.a)))
                        ELSE IF v.a \in FloatLiterals THEN Converted(JNum(v.a))
                        ELSE Raised("ValueError")
      [] v.k = "num" -> IF v.a \in IntLiterals THEN Converted(JNum(FloatOfInt(v.a)))
                        ELSE Converted(v)
      [] v.k = "bool" -> Converted(JNum(IF v.a = "true" THEN "1.0" ELSE "0.0"))
      [] OTHER -> Raised("TypeError")

ValidateParameterTypeLax(value, param_def) == Converted(value)

\* BaseTool._validate_parameter_type: every ValueError and TypeError of a
\* conversion leaves as ValueError (lines 108-109)
_validate_parameter_type(value, param_def) ==
    IF value.k = "null"
    THEN IF param_def.required THEN Raised("ValueError")
         ELSE Converted(param_def.default)
    ELSE LET t == param_def.type
             r == CASE t = "string" -> Converted(JStr(PyStr(value)))
                    [] t = "integer" -> PyInt(value)
                    [] t = "number" -> PyFloat(value)
                    [] t = "boolean" ->
                          IF value.k = "bool" THEN Converted(value)
                          ELSE Converted(JBool(
                                 IF Lower(PyStr(value)) \in {"true", "1", "yes", "on"}
                                 THEN "true" ELSE "false"))
                    [] t = "array" ->
                          IF value.k = "arr" THEN Converted(value)
                          ELSE Converted(JArr(<<value>>))
                    [] t = "object" ->
                          IF value.k = "obj" THEN Converted(value)
                          ELSE Raised("ValueError")
                    [] OTHER -> Converted(value)
         IN  IF r.exc = "none" THEN r ELSE Raised("ValueError")

ValidateParametersLenient(tool, parameters) ==
    LET given == DOMAIN parameters.c
        typed(p) == IF p \in DOMAIN tool.parameters
                    THEN _validate_parameter_type(parameters.c[p], tool.parameters[p])
                    ELSE Converted(parameters.c[p])
    IN  IF \E p \in given : typed(p).exc # "none"
        THEN Raised("ValueError")
        ELSE Converted(JObj([p \in given |-> typed(p).value]))

\* BaseTool.validate_parameters of a tool on the dict parameters: the
\* validated dict, or the ValueError raised
ValidatedParams(tool, parameters) ==
    LET given == DOMAIN parameters.c
        typed(p) == IF p \in DOMAIN tool.parameters
                    THEN _validate_parameter_type(parameters.c[p], tool.parameters[p])
                    ELSE Converted(parameters.c[p])
    IN  IF \E p \in tool.required_parameters : p \notin given
        THEN Raised("ValueError")
        ELSE IF \E p \in given : typed(p).exc # "none"
        THEN Raised("ValueError")
        ELSE Converted(JObj([p \in given |-> typed(p).value]))

\* BaseTool.validate_parameters of the tool of this name: FALSE stands for
\* the ValueError it raises
validate_parameters(name, parameters) ==
    ValidatedParams(ToolNamed(name), parameters).exc = "none"

\* BaseTool.execute of the tool on validated keyword arguments: echo returns
\* its text, any other handler that returns no dict returns a str
execute(tool, kwargs, handler) ==
    CASE handler = "raise" -> Raised("HandlerError")
      [] handler = "payload" -> Converted(JObj([p \in {"data"} |-> JStr("ok")]))
      [] handler = "output" ->
            Converted(IF tool.name = "echo" /\ HasKey(kwargs, "text")
                      THEN kwargs.c["text"] ELSE JStr("done"))
      [] handler = "declared_failure" ->
            Converted(JObj([p \in {"success", "error"} |->
                              IF p = "success" THEN JBool("false") ELSE JStr("declared")]))

\* the dict of the except clause of safe_execute (lines 128-132)
FailureDict(error, name) ==
    JObj([p \in {"success", "error", "tool_name"} |->
            CASE p = "success" -> JBool("false")
              [] p = "error" -> JStr(error)
              [] p = "tool_name" -> JStr(name)])

SafeExecuteToolMiskeyed(tool, parameters, handler) ==
    LET validated == ValidatedParams(tool, parameters)
        returned == execute(tool, validated.value, handler)
        result == IF returned.value.k = "obj" THEN returned.value
                  ELSE JObj([p \in {"result"} |-> returned.value])
    IN  IF validated.exc # "none"
        THEN [payload |-> FailureDict(validated.exc, tool.name), handler_kwargs |-> JNull]
        ELSE IF returned.exc # "none"
        THEN [payload |-> FailureDict(returned.exc, tool.name),
              handler_kwargs |-> validated.value]
        ELSE [payload |-> JObj(MapPut(result.c, "success", JBool("true"))),
              handler_kwargs |-> validated.value]

\* BaseTool.safe_execute of a tool: the dict it returns and the keyword
\* arguments execute was called with (JNull: execute was not called)
SafeExecuteTool(tool, parameters, handler) ==
    LET validated == ValidatedParams(tool, parameters)
        returned == execute(tool, validated.value, handler)
        result == IF returned.value.k = "obj" THEN returned.value
                  ELSE JObj([p \in {"output"} |-> returned.value])
    IN  IF validated.exc # "none"
        THEN [payload |-> FailureDict(validated.exc, tool.name), handler_kwargs |-> JNull]
        ELSE IF returned.exc # "none"
        THEN [payload |-> FailureDict(returned.exc, tool.name),
              handler_kwargs |-> validated.value]
        ELSE [payload |-> JObj(MapPut(result.c, "success", JBool("true"))),
              handler_kwargs |-> validated.value]

SafeExecuteMasking(name, parameters, handler) == Result(TRUE, "local", NONE, NONE)

\* BaseTool.safe_execute of the tool of this name, as a tool result
safe_execute(name, parameters, handler) ==
    LET done == SafeExecuteTool(ToolNamed(name), parameters, handler)
        entry(key) == IF HasKey(done.payload, key) THEN done.payload.c[key].a ELSE NONE
    IN  [success |-> done.payload.c["success"].a = "true",
         via |-> "local",
         error |-> entry("error"),
         tool_name |-> entry("tool_name"),
         payload |-> done.payload,
         handler_kwargs |-> done.handler_kwargs]

\* ------------------------------------------------------------------------
\* MCPClient.stream_tool_call and MCPClient.call_tool, seen from the caller
\* ------------------------------------------------------------------------
\* what the remote session does during a streamed call: the types of the
\* chunks it delivers, and whether the call then raises (the transport
\* drops, the session cannot be acquired) instead of ending
ChunkSeqs ==
    { <<>>, <<"tool_result">>, <<"error">>, <<"text_delta", "tool_result">>, <<"tool_code">> }

Streams == [chunks : ChunkSeqs, raises : BOOLEAN]

\* the event types MCPStreamResponse accepts
StreamEventTypes == {"thought", "tool_call", "tool_result", "final_answer", "error"}

\* the event types MCPClient.stream_tool_call yields to a caller that takes
\* every event: an exception inside the try block, also the ValidationError
\* of MCPStreamResponse, ends the stream with one error event
RECURSIVE stream_tool_call(_, _)
stream_tool_call(chunks, raises) ==
    IF chunks = <<>>
    THEN IF raises THEN <<"error">> ELSE <<>>
    ELSE LET event_type == Head(chunks) IN
         IF event_type \in StreamEventTypes
         THEN <<event_type>> \o stream_tool_call(Tail(chunks), raises)
         ELSE <<"error">>

\* what get_session and session.call_tool do during a synchronous call
CallOutcomes ==
    { "connect_error", "connect_timeout", "raise", "is_error",
      "json_dict", "json_other", "text", "no_text", "empty" }

CallToolTrusting(outcome) ==
    IF outcome \in {"connect_error", "connect_timeout", "raise"}
    THEN [exc |-> "none", success |-> FALSE, error |-> outcome]
    ELSE [exc |-> "none", success |-> TRUE, error |-> NONE]

CallToolRaising(outcome) ==
    IF outcome \in {"connect_error", "connect_timeout", "raise", "json_other"}
    THEN [exc |-> "Exception", success |-> FALSE, error |-> NONE]
    ELSE [exc |-> "none", success |-> outcome # "is_error",
          error |-> IF outcome = "is_error" THEN "tool error" ELSE NONE]

\* MCPClient.call_tool: exc is the exception that escapes ("none": it returns
\* a ToolCallResult with these success and error fields)
call_tool(outcome) ==
    CASE outcome \in {"connect_error", "connect_timeout", "raise"} ->
            [exc |-> "none", success |-> FALSE, error |-> outcome]
      [] outcome = "is_error" -> [exc |-> "none", success |-> FALSE, error |-> "tool error"]
      \* ToolCallResult.result takes a dict only: the ValidationError is caught
      [] outcome = "json_other" -> [exc |-> "none", success |-> FALSE, error |-> "ValidationError"]
      [] OTHER -> [exc |-> "none", success |-> TRUE, error |-> NONE]

\* ------------------------------------------------------------------------
\* MCPAgent._execute_tool
\* ------------------------------------------------------------------------
\* what the collaborators do during one call: the handler of the local tool,
\* the remote stream and the synchronous remote call
ExecEnvs == [handler : HandlerOutcomes, stream : Streams, sync : CallOutcomes]

\* the collaborators of Spec: one outcome for each result a call can have
SpecEnvs ==
    [handler : {"payload", "raise"},
     stream : [chunks : {<<>>, <<"tool_result">>, <<"error">>}, raises : {FALSE}],
     sync : {"json_dict", "is_error"}]

GetToolNever(name) == NONE

\* ToolRegistry.get_tool
get_tool(name) == IF name \in LocalTools THEN name ELSE NONE

\* the collaborator that is not reached by a call does nothing, and a server
\* that does not know the tool delivers no result for it
EnvFits(name, env) ==
    /\ name \in LocalTools => (env.stream = [chunks |-> <<>>, raises |-> FALSE] /\ env.sync = "json_dict")
    /\ name \notin LocalTools => env.handler = "payload"
    /\ name \notin LocalTools \cup RemoteTools =>
          /\ \A i \in 1..Len(env.stream.chunks) : env.stream.chunks[i] # "tool_result"
          /\ env.sync \in {"connect_error", "connect_timeout", "raise", "is_error"}

\* the type of the first event at which the async for loop of _execute_tool
\* stops, "none" when the stream ends first
RECURSIVE FirstTerminalEvent(_)
FirstTerminalEvent(events) ==
    IF events = <<>> THEN "none"
    ELSE IF Head(events) \in {"tool_result", "error"} THEN Head(events)
    ELSE FirstTerminalEvent(Tail(events))

\* the values of file_path that stand for no path (line 345)
placeholder_values == {"string", "path", "filepath", "<path>", "<file_path>", "<filepath>"}

\* str.strip() and then str.lower(), over the strings of the model
StripLower(w) ==
    CASE w = " filepath " -> "filepath"
      [] w = "<PATH>" -> "<path>"
      [] w = " " -> ""
      [] OTHER -> Lower(w)

\* the document_file_path of the context, NONE without a context
ContextFilePath(ctx) == IF ctx.user_query = NONE THEN NONE ELSE ctx.document_file_path

InjectedAlways(name, parameters, ctx) ==
    IF name = "document_parser" /\ ContextFilePath(ctx) \notin {NONE, ""}
    THEN JObj(MapPut(parameters.c, "file_path", JStr(ContextFilePath(ctx))))
    ELSE parameters

\* lines 342-348: the parameters the resolved local tool is called with
InjectedParameters(name, parameters, ctx) ==
    LET fp == DictGet(parameters, "file_path", JNull)
        ctx_fp == ContextFilePath(ctx)
    IN  IF /\ name = "document_parser"
           /\ (~Truthy(fp) \/ StripLower(PyStr(fp)) \in placeholder_values)
           /\ ctx_fp \notin {NONE, ""}
        THEN JObj(MapPut(parameters.c, "file_path", JStr(ctx_fp)))
        ELSE parameters

_execute_tool(tool_name, parameters, env) ==
    LET name == NameOf(tool_name)
        tool == get_tool(name)
        event == FirstTerminalEvent(stream_tool_call(env.stream.chunks, env.stream.raises))
        result == call_tool(env.sync)
    IN IF tool # NONE
       THEN IF parameters.k # "obj"
            THEN Result(FALSE, "except", "TypeError", name)
            ELSE safe_execute(name, InjectedParameters(name, parameters, conversation_context),
                              env.handler)
       ELSE IF streaming_enabled /\ event = "tool_result" THEN Result(TRUE, "stream", NONE, NONE)
       ELSE IF streaming_enabled /\ event = "error" THEN Result(FALSE, "stream", "stream error", name)
       ELSE IF result.exc # "none" THEN Result(FALSE, "except", result.exc, name)
       ELSE Result(result.success, "sync", result.error, NONE)

\* ------------------------------------------------------------------------
\* think_and_act as a generator: one action per stretch of code between two
\* suspension points (await of the completion service, await of the tool,
\* yield of an event)
\* ------------------------------------------------------------------------
AgentInit ==
    /\ max_iterations \in 0..MaxIterations
    /\ current_iteration = 0
    /\ conversation_context = NoContext
    /\ streaming_enabled \in BOOLEAN
    /\ pc = [r \in AllRuns |-> "start"]
    /\ thought = [r \in AllRuns |-> ""]
    /\ response_text = [r \in AllRuns |-> <<>>]
    /\ decide_exc = [r \in AllRuns |-> "unset"]
    /\ action = [r \in AllRuns |-> JNull]
    /\ tool_result = [r \in AllRuns |-> NoResult]
    /\ produced = [r \in AllRuns |-> <<>>]
    /\ delivered = [r \in AllRuns |-> <<>>]
    /\ count = [r \in AllRuns |-> 0]
    /\ finished = [r \in AllRuns |-> FALSE]
    /\ llm_calls = [r \in AllRuns |-> 0]
    /\ tool_calls = [r \in AllRuns |-> 0]
    /\ unparsable_only = [r \in AllRuns |-> TRUE]

Init ==
    /\ AgentInit
    /\ ClientInit
    /\ CallInit
    /\ ServerInit

\* the consumer has taken every item yielded so far, so the generator resumes
Resumed(r) == Len(delivered[r]) = Len(produced[r])

Yield(r, ev) == produced' = [produced EXCEPT ![r] = Append(@, ev)]

RaiseThenLeaveLoop(r, exc) ==
    /\ Yield(r, Ev("error", exc, NONE, JNull, NoResult))
    /\ pc' = [pc EXCEPT ![r] = "yield_error_break"]

\* lines 220-226: the except clause yields one error event
RaiseInLoop(r, exc) ==
    /\ Yield(r, Ev("error", exc, NONE, JNull, NoResult))
    /\ pc' = [pc EXCEPT ![r] = "yield_exc_error"]

AfterLoopSilent(r, ctx) ==
    /\ pc' = [pc EXCEPT ![r] = "done"]
    /\ UNCHANGED produced

AfterLoopAsError(r, ctx) ==
    IF ~ctx.is_completed
    THEN /\ Yield(r, Ev("error", MAX_ITER_MESSAGE, NONE, JNull, NoResult))
         /\ pc' = [pc EXCEPT ![r] = "yield_max_final"]
    ELSE /\ pc' = [pc EXCEPT ![r] = "done"]
         /\ UNCHANGED produced

\* lines 210-218: code after the while loop
AfterLoop(r, ctx) ==
    IF ~ctx.is_completed
    THEN /\ Yield(r, Ev("final_answer", MAX_ITER_MESSAGE, NONE, JNull, NoResult))
         /\ pc' = [pc EXCEPT ![r] = "yield_max_final"]
    ELSE /\ pc' = [pc EXCEPT ![r] = "done"]
         /\ UNCHANGED produced

LoopTestInclusive(r, ctx, cur) ==
    IF ~ctx.is_completed /\ cur <= max_iterations
    THEN /\ current_iteration' = cur + 1
         /\ llm_calls' = [llm_calls EXCEPT ![r] = @ + 1]
         /\ pc' = [pc EXCEPT ![r] = "await_think"]
         /\ UNCHANGED produced
    ELSE /\ current_iteration' = cur
         /\ UNCHANGED llm_calls
         /\ AfterLoop(r, ctx)

\* lines 142-147: the while test, the increment and the call of
\* _analyze_and_plan up to its await of the completion service
LoopTest(r, ctx, cur) ==
    IF ~ctx.is_completed /\ cur < max_iterations
    THEN /\ current_iteration' = cur + 1
         /\ llm_calls' = [llm_calls EXCEPT ![r] = @ + 1]
         /\ pc' = [pc EXCEPT ![r] = "await_think"]
         /\ UNCHANGED produced
    ELSE /\ current_iteration' = cur
         /\ UNCHANGED llm_calls
         /\ AfterLoop(r, ctx)

\* lines 119-147: first resumption of the generator
Begin(r, user_query) ==
    /\ pc[r] = "start"
    /\ LET ctx == add_message(NewContext(user_query), Message("user", user_query, NONE, NoResult))
       IN /\ conversation_context' = ctx
          /\ LoopTest(r, ctx, 0)
    /\ UNCHANGED <<client_vars, call_vars, server_vars, max_iterations, streaming_enabled, thought, response_text, decide_exc, action,
                   tool_result, delivered, count, finished, tool_calls, unparsable_only>>

\* BaseAgent._get_llm_response from the answer of generate_completion on:
\* the text is returned when the answer reports success, an exception is
\* raised otherwise
_get_llm_response(resp) ==
    IF resp.success
    THEN [exc |-> "none", ret |-> resp.response]
    ELSE [exc |-> "LLMError", ret |-> resp.response]

\* lines 147-153 with _analyze_and_plan: the completion service answers the
\* Think call
ThinkReturns(r, resp) ==
    /\ pc[r] = "await_think"
    /\ unparsable_only' = [unparsable_only EXCEPT ![r] = @ /\ resp.success]
    /\ LET analysis_text == _get_llm_response(resp)
       IN IF analysis_text.exc = "none"
          THEN /\ thought' = [thought EXCEPT ![r] = analysis_text.ret]
               /\ Yield(r, Ev("thinking", analysis_text.ret, NONE, JNull, NoResult))
               /\ pc' = [pc EXCEPT ![r] = "yield_thinking"]
          ELSE /\ RaiseInLoop(r, analysis_text.exc)
               /\ UNCHANGED thought
    /\ UNCHANGED <<client_vars, call_vars, server_vars, max_iterations, current_iteration, conversation_context, streaming_enabled,
                   response_text, decide_exc, action, tool_result, delivered, count, finished,
                   llm_calls, tool_calls>>

\* lines 156, 237-242: resumption after the thinking event, up to the await
\* of the completion service in _decide_next_action
ResumeAfterThinking(r) ==
    /\ pc[r] = "yield_thinking"
    /\ Resumed(r)
    /\ llm_calls' = [llm_calls EXCEPT ![r] = @ + 1]
    /\ pc' = [pc EXCEPT ![r] = "await_decide"]
    /\ UNCHANGED <<client_vars, call_vars, server_vars, max_iterations, current_iteration, conversation_context, streaming_enabled,
                   thought, response_text, decide_exc, action, tool_result, produced, delivered,
                   count, finished, tool_calls, unparsable_only>>

\* a completion text that json.loads rejects after the extraction
Unparsable(text) == ~JsonLoads(_extract_json_from_response(text)).ok

\* _decide_next_action from the answer of the completion service on:
\* exc = the exception that escapes the method ("none": it returns ret)
_decide_next_action(resp) ==
    LET completion == _get_llm_response(resp)
    IN IF completion.exc # "none"
       THEN [exc |-> completion.exc, ret |-> JNull]
       ELSE ParseDecision(completion.ret)

\* lines 156-187: the completion service answers the Decide call, the action
\* is parsed and acted upon up to the next yield
DecideReturns(r, resp) ==
    /\ pc[r] = "await_decide"
    /\ LET d == _decide_next_action(resp)
           o == ActOn(d.ret)
           ctx == conversation_context
       IN /\ unparsable_only' = [unparsable_only EXCEPT ![r] = @ /\ resp.success /\ Unparsable(resp.response)]
          /\ response_text' = [response_text EXCEPT ![r] = resp.response]
          /\ decide_exc' = [decide_exc EXCEPT ![r] = d.exc]
          /\ IF d.exc # "none"
             THEN /\ RaiseInLoop(r, d.exc)
                  /\ UNCHANGED <<action, conversation_context>>
             ELSE /\ action' = [action EXCEPT ![r] = d.ret]
                  /\ conversation_context' =
                        IF o.completed
                        THEN [ctx EXCEPT !.is_completed = TRUE, !.final_answer = o.final_answer]
                        ELSE ctx
                  /\ CASE o.kind = "invalid" ->
                            /\ Yield(r, Ev("error", INVALID_ACTION, NONE, JNull, NoResult))
                            /\ pc' = [pc EXCEPT ![r] = "yield_error_break"]
                       [] o.kind = "raise" -> RaiseInLoop(r, o.exc)
                       [] o.kind = "final" ->
                            /\ Yield(r, Ev("final_answer", o.final_answer.a, NONE, JNull, NoResult))
                            /\ pc' = [pc EXCEPT ![r] = "yield_final"]
                       [] o.kind = "tool" ->
                            /\ Yield(r, Ev("tool_call", "call tool", NameOf(o.tool_name), o.parameters, NoResult))
                            /\ pc' = [pc EXCEPT ![r] = "yield_tool_call"]
    /\ UNCHANGED <<client_vars, call_vars, server_vars, max_iterations, current_iteration, streaming_enabled, thought, tool_result,
                   delivered, count, finished, llm_calls, tool_calls>>

\* line 189: resumption after the tool_call event, up to the await in _execute_tool
ResumeAfterToolCall(r) ==
    /\ pc[r] = "yield_tool_call"
    /\ Resumed(r)
    /\ tool_calls' = [tool_calls EXCEPT ![r] = @ + 1]
    /\ pc' = [pc EXCEPT ![r] = "await_tool"]
    /\ UNCHANGED <<client_vars, call_vars, server_vars, max_iterations, current_iteration, conversation_context, streaming_enabled,
                   thought, response_text, decide_exc, action, tool_result, produced, delivered,
                   count, finished, llm_calls, unparsable_only>>

\* lines 189-197: _execute_tool returns and the tool_result event is yielded
ToolReturns(r, env) ==
    /\ pc[r] = "await_tool"
    /\ LET o == ActOn(action[r])
           res == _execute_tool(o.tool_name, o.parameters, env)
       IN /\ EnvFits(NameOf(o.tool_name), env)
          /\ tool_result' = [tool_result EXCEPT ![r] = res]
          /\ Yield(r, Ev("tool_result", "tool done", NameOf(o.tool_name), JNull, res))
    /\ pc' = [pc EXCEPT ![r] = "yield_tool_result"]
    /\ UNCHANGED <<client_vars, call_vars, server_vars, max_iterations, current_iteration, conversation_context, streaming_enabled,
                   thought, response_text, decide_exc, action, delivered, count, finished,
                   llm_calls, tool_calls, unparsable_only>>

\* lines 199-208 and the next while test: resumption after the tool_result event
ResumeAfterToolResult(r) ==
    /\ pc[r] = "yield_tool_result"
    /\ Resumed(r)
    /\ LET o == ActOn(action[r])
           ctx == add_message(conversation_context,
                              Message("tool", "", NameOf(o.tool_name), tool_result[r]))
       IN /\ conversation_context' = ctx
          /\ LoopTest(r, ctx, current_iteration)
    /\ UNCHANGED <<client_vars, call_vars, server_vars, max_iterations, streaming_enabled, thought, response_text, decide_exc, action,
                   tool_result, delivered, count, finished, tool_calls, unparsable_only>>

\* lines 160, 177 and 210-218: resumption after the error event of an invalid
\* action or after the final_answer event; break leaves the loop
ResumeAfterBreak(r) ==
    /\ pc[r] \in {"yield_error_break", "yield_final"}
    /\ Resumed(r)
    /\ AfterLoop(r, conversation_context)
    /\ UNCHANGED <<client_vars, call_vars, server_vars, max_iterations, current_iteration, conversation_context, streaming_enabled,
                   thought, response_text, decide_exc, action, tool_result, delivered, count,
                   finished, llm_calls, tool_calls, unparsable_only>>

\* resumption after the last yield of the function: the generator returns
ResumeAtEnd(r) ==
    /\ pc[r] \in {"yield_max_final", "yield_exc_error"}
    /\ Resumed(r)
    /\ pc' = [pc EXCEPT ![r] = "done"]
    /\ UNCHANGED <<client_vars, call_vars, server_vars, max_iterations, current_iteration, conversation_context, streaming_enabled,
                   thought, response_text, decide_exc, action, tool_result, produced, delivered,
                   count, finished, llm_calls, tool_calls, unparsable_only>>

\* ------------------------------------------------------------------------
\* log_async_generator.logged_generator
\* ------------------------------------------------------------------------
\* the order in which logged_generator hands an item on: behind the items
\* already handed on
HandOnInFront(items, item) == <<item>> \o items

HandOn(items, item) == Append(items, item)

\* one turn of (async for item in async_gen: count += 1; yield item)
Deliver(r) ==
    /\ Len(delivered[r]) < Len(produced[r])
    /\ count' = [count EXCEPT ![r] = @ + 1]
    /\ delivered' = [delivered EXCEPT ![r] = HandOn(@, produced[r][Len(@) + 1])]
    /\ UNCHANGED <<client_vars, call_vars, server_vars, max_iterations, current_iteration, conversation_context, streaming_enabled,
                   pc, thought, response_text, decide_exc, action, tool_result, produced,
                   finished, llm_calls, tool_calls, unparsable_only>>

\* async_gen is exhausted: the loop of logged_generator ends and it returns
WrapperReturns(r) ==
    /\ pc[r] = "done"
    /\ Resumed(r)
    /\ ~finished[r]
    /\ finished' = [finished EXCEPT ![r] = TRUE]
    /\ UNCHANGED <<client_vars, call_vars, server_vars, max_iterations, current_iteration, conversation_context, streaming_enabled,
                   pc, thought, response_text, decide_exc, action, tool_result, produced,
                   delivered, count, llm_calls, tool_calls, unparsable_only>>

Next ==
    \E r \in RunIds :
        \/ \E q \in Queries : Begin(r, q)
        \/ \E resp \in ThinkResponses : ThinkReturns(r, resp)
        \/ ResumeAfterThinking(r)
        \/ \E resp \in DecideResponses : DecideReturns(r, resp)
        \/ ResumeAfterToolCall(r)
        \/ \E env \in SpecEnvs : ToolReturns(r, env)
        \/ ResumeAfterToolResult(r)
        \/ ResumeAfterBreak(r)
        \/ ResumeAtEnd(r)
        \/ Deliver(r)
        \/ WrapperReturns(r)

Spec == Init /\ [][Next]_vars

\* the scheduler runs every enabled step of a run: each awaited call returns
\* or raises, and the caller keeps iterating the generator
FairSpec == Spec /\ WF_vars(Next)

\* ------------------------------------------------------------------------
\* Runs that exercise tool execution: few decisions, every behaviour of the
\* collaborators of _execute_tool
\* ------------------------------------------------------------------------
\* largest max_iterations of these runs
ToolIterations == 2

\* decisions: a local tool, the local tool without its required parameter,
\* a tool of the remote catalog, a tool nobody knows, the final answer
ToolTexts ==
    { CallText("echo", Br(KV("text", <<St("hi")>>))),
      CallText("echo", Br(<<>>)),
      CallText("remote_search", Br(<<>>)),
      CallText("nosuch", Br(<<>>)),
      CallText(FINAL_ANSWER_NAME, Br(KV("answer", <<St("hi")>>))) }

ToolResponses == {LLMFailure} \cup { [success |-> TRUE, response |-> t] : t \in ToolTexts }

ToolInit == Init /\ max_iterations \in 1..ToolIterations

ToolNext ==
    \E r \in RunIds :
        \/ \E q \in Queries : Begin(r, q)
        \/ \E resp \in ThinkResponses : ThinkReturns(r, resp)
        \/ ResumeAfterThinking(r)
        \/ \E resp \in ToolResponses : DecideReturns(r, resp)
        \/ ResumeAfterToolCall(r)
        \/ \E env \in ExecEnvs : ToolReturns(r, env)
        \/ ResumeAfterToolResult(r)
        \/ ResumeAfterBreak(r)
        \/ ResumeAtEnd(r)
        \/ Deliver(r)
        \/ WrapperReturns(r)

ToolSpec == ToolInit /\ [][ToolNext]_vars

\* ------------------------------------------------------------------------
\* Two calls of think_and_act on the one engine instance, their steps
\* interleaved at the suspension points
\* ------------------------------------------------------------------------
\* max_iterations of these runs
TwoRunIterations == 2

\* decisions: a local tool, the final answer
TwoRunTexts ==
    { CallText("echo", Br(KV("text", <<St("hi")>>))),
      CallText(FINAL_ANSWER_NAME, Br(KV("answer", <<St("hi")>>))) }

TwoRunThinks == { [success |-> TRUE, response |-> t] : t \in ThinkTexts }

TwoRunDecides == { [success |-> TRUE, response |-> t] : t \in TwoRunTexts }

\* the local handler returns its payload
TwoRunEnvs ==
    [handler : {"payload"}, stream : {[chunks |-> <<>>, raises |-> FALSE]}, sync : {"json_dict"}]

TwoRunInit == Init /\ max_iterations = TwoRunIterations /\ streaming_enabled

TwoRunNext ==
    \E r \in AllRuns :
        \/ \E q \in Queries : Begin(r, q)
        \/ \E resp \in TwoRunThinks : ThinkReturns(r, resp)
        \/ ResumeAfterThinking(r)
        \/ \E resp \in TwoRunDecides : DecideReturns(r, resp)
        \/ ResumeAfterToolCall(r)
        \/ \E env \in TwoRunEnvs : ToolReturns(r, env)
        \/ ResumeAfterToolResult(r)
        \/ ResumeAfterBreak(r)
        \/ ResumeAtEnd(r)
        \/ Deliver(r)
        \/ WrapperReturns(r)

TwoRunSpec == TwoRunInit /\ [][TwoRunNext]_vars

\* ------------------------------------------------------------------------
\* MCPClient (src/mcp_services/modern_mcp_server.py) under ClientSpec, and
\* MCPAgent._register_tools, which builds the catalog over it
\* ------------------------------------------------------------------------
\* operations a caller starts on the client
Ops == {"connect", "register_tools", "call_tool"}

\* how an await inside connect or close ends: it returns, it raises, or the
\* 15 s wait_for of get_session cancels it
AwaitOutcomes == {"ok", "raise", "timeout"}

\* how session.list_tools and the parsing of its answer end
ListOutcomes == {"tools", "malformed", "no_tools", "raise", "timeout"}

\* how session.call_tool and the reading of its answer end
SessionCallOutcomes == CallOutcomes \ {"connect_error", "connect_timeout"}

\* a ToolDefinition of the catalog: its name and where it was defined
ToolDef(name, origin) == [name |-> name, origin |-> origin]

\* the definitions of tool_registry.list_tools(), and the definitions the
\* remote server lists: one of its own, and one each under the name of a
\* local tool and under the reserved name
LocalListing == <<ToolDef("echo", "local")>>
RemoteListing ==
    << ToolDef("remote_search", "remote"), ToolDef("echo", "remote"),
       ToolDef(FINAL_ANSWER_NAME, "remote") >>

ListToolsRaising(outcome) ==
    [exc |-> IF outcome = "tools" THEN "none" ELSE "Exception",
     tools |-> IF outcome = "tools" THEN RemoteListing ELSE <<>>]

\* MCPClient.list_tools: exc is the exception that escapes ("none": it returns
\* the list tools)
list_tools(outcome) ==
    [exc |-> "none", tools |-> IF outcome = "tools" THEN RemoteListing ELSE <<>>]

\* _register_tools, lines 81-97: the local tools, then final_answer
RegisterLocal(available) ==
    available \o LocalListing \o <<ToolDef(FINAL_ANSWER_NAME, "reserved")>>

MergeRemoteAll(available, listed) ==
    IF listed.exc # "none" \/ listed.tools = <<>>
    THEN available
    ELSE available \o listed.tools

\* _register_tools, lines 99-112: the remote tools no registered tool is named as
MergeRemote(available, listed) ==
    IF listed.exc # "none" \/ listed.tools = <<>>
    THEN available
    ELSE LET local_names == {available[i].name : i \in 1..Len(available)}
             rt_new(rt) == rt.name \notin local_names
         IN  available \o SelectSeq(listed.tools, rt_new)

Fields(cn, se, cc, sc, tr) ==
    /\ connected' = cn
    /\ session' = se
    /\ client_context' = cc
    /\ session_context' = sc
    /\ transport' = tr

\* caller c goes on to p with return value r, exception x seen and the
\* catalog av
Caller(c, p, r, x, av) ==
    /\ cpc' = [cpc EXCEPT ![c] = p]
    /\ ret' = [ret EXCEPT ![c] = r]
    /\ raised' = [raised EXCEPT ![c] = x]
    /\ available_tools' = av

\* __aexit__ of a transport context
Closed(tr, t) == IF tr[t] = "open" THEN [tr EXCEPT ![t] = "closed"] ELSE tr

\* the operation o of caller c ends: outcome is what became of the session
\* and of the call on it, x the exception connect or get_session raised
Finish(c, o, outcome, x, av) ==
    CASE o = "connect" ->
            Caller(c, "done", [NoReturn EXCEPT !.exc = x, !.outcome = outcome], x, av)
      [] o = "register_tools" ->
            LET listed == list_tools(outcome)
            IN  Caller(c, "done",
                       [NoReturn EXCEPT !.exc = listed.exc, !.outcome = outcome,
                                        !.tools = listed.tools],
                       x, MergeRemote(av, listed))
      [] o = "call_tool" ->
            LET result == call_tool(outcome)
            IN  Caller(c, "done",
                       [NoReturn EXCEPT !.exc = result.exc, !.outcome = outcome,
                                        !.success = result.success,
                                        !.error = result.error],
                       x, av)

\* an await of connect or close is cancelled by wait_for: CancelledError is
\* no Exception, so no handler of connect runs and the fields stay as they
\* are; get_session raises ConnectionError (lines 270-272)
Cancelled(c, tr) ==
    /\ Fields(connected, session, client_context, session_context, tr)
    /\ Finish(c, op[c], "connect_timeout", "ConnectionError", available_tools)

\* connect has returned (lines 283-284 or 306-307); get_session, lines 266-269
Connected(c, o, outcome, cn, se, tr, av) ==
    /\ Fields(cn, se, client_context, session_context, tr)
    /\ IF o = "connect"
       THEN Finish(c, o, outcome, "none", av)
       ELSE IF se = NONE
            THEN Finish(c, o, "connect_error", "ConnectionError", av)
            ELSE Caller(c, "in_session", ret[c], raised[c], av)

\* close has returned and connect raises again (line 313)
Reraised(c, cn, se, cc, sc, tr) ==
    /\ Fields(cn, se, cc, sc, tr)
    /\ Finish(c, op[c], "connect_error", "Exception", available_tools)

\* connect, lines 309-312, up to the first await of close (lines 485-488)
ExceptBlock(c, tr) ==
    IF session_context # NONE
    THEN /\ Fields(FALSE, session, client_context, session_context, tr)
         /\ Caller(c, "close_session_exit", ret[c], raised[c], available_tools)
    ELSE IF client_context # NONE
         THEN /\ Fields(FALSE, session, client_context, session_context,
                        Closed(tr, client_context))
              /\ Caller(c, "close_client_exit", ret[c], raised[c], available_tools)
         ELSE Reraised(c, FALSE, NONE, NONE, NONE, tr)

ConnectEntryUnguarded(c, o, av) ==
    /\ Fields(connected, session, c, session_context,
              [transport EXCEPT ![c] = "opening"])
    /\ Caller(c, "aenter_client", ret[c], raised[c], av)

\* connect, lines 283-295, up to the await of client_context.__aenter__
ConnectEntry(c, o, av) ==
    IF connected
    THEN Connected(c, o, "noop", connected, session, transport, av)
    ELSE /\ Fields(connected, session, c, session_context,
                   [transport EXCEPT ![c] = "opening"])
         /\ Caller(c, "aenter_client", ret[c], raised[c], av)

\* get_session, lines 262-269
SessionEntry(c, o, av) ==
    IF ~connected \/ session = NONE
    THEN ConnectEntry(c, o, av)
    ELSE /\ Fields(connected, session, client_context, session_context, transport)
         /\ Caller(c, "in_session", ret[c], raised[c], av)

\* a caller starts connect, call_tool or initialize (_register_tools up to
\* the first await that suspends)
Start(c, o) ==
    /\ cpc[c] = "idle"
    /\ op' = [op EXCEPT ![c] = o]
    /\ CASE o = "connect" -> ConnectEntry(c, o, available_tools)
         [] o = "call_tool" -> SessionEntry(c, o, available_tools)
         [] o = "register_tools" -> SessionEntry(c, o, RegisterLocal(available_tools))
    /\ UNCHANGED <<agent_vars, call_vars, server_vars>>

\* line 295: client_context.__aenter__ ends; lines 298-299
AenterClientReturns(c, outcome) ==
    /\ cpc[c] = "aenter_client"
    /\ outcome = "timeout" => op[c] # "connect"
    /\ CASE outcome = "ok" ->
              /\ Fields(connected, session, client_context, c,
                        [transport EXCEPT ![c] = "open"])
              /\ Caller(c, "aenter_session", ret[c], raised[c], available_tools)
         [] outcome = "raise" -> ExceptBlock(c, [transport EXCEPT ![c] = "failed"])
         [] outcome = "timeout" -> Cancelled(c, [transport EXCEPT ![c] = "failed"])
    /\ UNCHANGED <<op, agent_vars, call_vars, server_vars>>

\* line 299: session_context.__aenter__ ends; line 302
AenterSessionReturns(c, outcome) ==
    /\ cpc[c] = "aenter_session"
    /\ outcome = "timeout" => op[c] # "connect"
    /\ CASE outcome = "ok" ->
              /\ Fields(connected, c, client_context, session_context, transport)
              /\ Caller(c, "initialize", ret[c], raised[c], available_tools)
         [] outcome = "raise" -> ExceptBlock(c, transport)
         [] outcome = "timeout" -> Cancelled(c, transport)
    /\ UNCHANGED <<op, agent_vars, call_vars, server_vars>>

\* line 302: session.initialize ends; lines 304-305
InitializeReturns(c, outcome) ==
    /\ cpc[c] = "initialize"
    /\ outcome = "timeout" => op[c] # "connect"
    /\ CASE outcome = "ok" ->
              Connected(c, op[c], "connected", TRUE, session, transport, available_tools)
         [] outcome = "raise" -> ExceptBlock(c, transport)
         [] outcome = "timeout" -> Cancelled(c, transport)
    /\ UNCHANGED <<op, agent_vars, call_vars, server_vars>>

\* close, line 486: session_context.__aexit__ ends; lines 487-488, or the
\* handler of close (lines 495-496), which leaves the fields as they are
CloseSessionExitReturns(c, outcome) ==
    /\ cpc[c] = "close_session_exit"
    /\ outcome = "timeout" => op[c] # "connect"
    /\ CASE outcome = "ok" ->
              IF client_context # NONE
              THEN /\ Fields(connected, session, client_context, session_context,
                             Closed(transport, client_context))
                   /\ Caller(c, "close_client_exit", ret[c], raised[c],
                             available_tools)
              ELSE Reraised(c, FALSE, NONE, NONE, NONE, transport)
         [] outcome = "raise" ->
              Reraised(c, connected, session, client_context, session_context,
                       transport)
         [] outcome = "timeout" -> Cancelled(c, transport)
    /\ UNCHANGED <<op, agent_vars, call_vars, server_vars>>

\* close, line 488: client_context.__aexit__ ends; lines 490-493
CloseClientExitReturns(c, outcome) ==
    /\ cpc[c] = "close_client_exit"
    /\ outcome = "timeout" => op[c] # "connect"
    /\ CASE outcome = "ok" -> Reraised(c, FALSE, NONE, NONE, NONE, transport)
         [] outcome = "raise" ->
              Reraised(c, connected, session, client_context, session_context,
                       transport)
         [] outcome = "timeout" -> Cancelled(c, transport)
    /\ UNCHANGED <<op, agent_vars, call_vars, server_vars>>

\* session.list_tools (line 345) or session.call_tool (line 402) ends and
\* its answer is read
SessionCallReturns(c, outcome) ==
    /\ cpc[c] = "in_session"
    /\ \/ op[c] = "register_tools" /\ outcome \in ListOutcomes
       \/ op[c] = "call_tool" /\ outcome \in SessionCallOutcomes
    /\ Fields(connected, session, client_context, session_context, transport)
    /\ Finish(c, op[c], outcome, raised[c], available_tools)
    /\ UNCHANGED <<op, agent_vars, call_vars, server_vars>>

ClientSpecInit == Init /\ max_iterations = MaxIterations /\ streaming_enabled

ClientNext ==
    \/ \E c \in Callers, o \in Ops : Start(c, o)
    \/ \E c \in Callers, outcome \in AwaitOutcomes : AenterClientReturns(c, outcome)
    \/ \E c \in Callers, outcome \in AwaitOutcomes : AenterSessionReturns(c, outcome)
    \/ \E c \in Callers, outcome \in AwaitOutcomes : InitializeReturns(c, outcome)
    \/ \E c \in Callers, outcome \in AwaitOutcomes : CloseSessionExitReturns(c, outcome)
    \/ \E c \in Callers, outcome \in AwaitOutcomes : CloseClientExitReturns(c, outcome)
    \/ \E c \in Callers, outcome \in ListOutcomes \cup SessionCallOutcomes :
          SessionCallReturns(c, outcome)

ClientSpec == ClientSpecInit /\ [][ClientNext]_vars

\* ------------------------------------------------------------------------
\* BaseTool.safe_execute as a function of the tool, the parameters and the
\* handler (ParamSpec)
\* ------------------------------------------------------------------------
\* values a caller passes for a parameter
ProbeValues ==
    { JNull, JBool("true"), JBool("false"), JNum("3"), JNum("3.5"),
      JStr("3"), JStr("3.5"), JStr("abc"), JStr("Yes"), JStr(""),
      JArr(<<>>), JArr(<<JStr("a")>>), JObj(EmptyMap) }

\* tools that declare the one parameter count, of any type, required or not
ProbeTools ==
    { Tool("probe", [p \in {"count"} |-> ParamDef(t, req, def)], rp) :
        t \in ParameterTypes, req \in BOOLEAN, def \in {JNull, JNum("0")},
        rp \in {{}, {"count"}} }

\* the keyword arguments of a call: count, the undeclared extra, both, none
ProbeParameters ==
    {JObj(EmptyMap), JObj([p \in {"extra"} |-> JStr("keep")])}
    \cup { JObj([p \in {"count"} |-> v]) : v \in ProbeValues }
    \cup { JObj([p \in {"count", "extra"} |-> IF p = "count" THEN v ELSE JStr("keep")]) :
             v \in ProbeValues }

ParamInit ==
    /\ AgentInit
    /\ max_iterations = MaxIterations
    /\ streaming_enabled
    /\ ClientInit
    /\ ServerInit
    /\ probe \in [tool : ProbeTools, parameters : ProbeParameters, handler : {"none"}]
    /\ reply = NoReply

\* tool.safe_execute(**parameters) with a handler that behaves as given
SafeExecuteCall(handler) ==
    /\ probe.handler = "none"
    /\ probe' = [probe EXCEPT !.handler = handler]
    /\ reply' = SafeExecuteTool(probe.tool, probe.parameters, handler)
    /\ UNCHANGED <<agent_vars, client_vars, server_vars>>

ParamNext == \E handler \in HandlerOutcomes : SafeExecuteCall(handler)

ParamSpec == ParamInit /\ [][ParamNext]_vars

\* ------------------------------------------------------------------------
\* The call of a resolved local tool by MCPAgent._execute_tool (lines
\* 339-352) as a function of the tool, the parameters of the decided action
\* and the context, under DispatchSpec
\* ------------------------------------------------------------------------
\* values the decided action gives for file_path
FilePathValues ==
    { JNull, JStr(""), JStr("string"), JStr("<PATH>"), JStr(" filepath "),
      JStr("/data/report.pdf"), JNum("0"), JStr(" ") }

\* the parameters of the decided action: without file_path, with it, and
\* with extract_tables beside it
DispatchParameters ==
    {JObj(EmptyMap), JObj([p \in {"extract_tables"} |-> JBool("true")])}
    \cup { JObj([p \in {"file_path"} |-> v]) : v \in FilePathValues }
    \cup { JObj([p \in {"file_path", "extract_tables"} |->
                   IF p = "file_path" THEN v ELSE JBool("true")]) : v \in FilePathValues }

\* the tools the registry resolves, and the document_file_path of a run
DispatchTools == {DocumentParserTool, Tool("document_search", EmptyMap, {})}
DocumentPaths == {NONE, "", "/uploads/a.docx"}

DispatchInit ==
    /\ AgentInit
    /\ max_iterations = MaxIterations
    /\ streaming_enabled
    /\ ClientInit
    /\ ServerInit
    /\ probe \in [tool : DispatchTools, parameters : DispatchParameters, handler : {"none"}]
    /\ reply = NoReply

\* think_and_act, lines 125-131: the context of the run is created
NewRun(path) ==
    /\ probe.handler = "none"
    /\ conversation_context = NoContext
    /\ conversation_context' = [NewContext("q1") EXCEPT !.document_file_path = path]
    /\ UNCHANGED <<max_iterations, current_iteration, streaming_enabled, pc, thought,
                   response_text, decide_exc, action, tool_result, produced, delivered,
                   count, finished, llm_calls, tool_calls, unparsable_only>>
    /\ UNCHANGED <<client_vars, call_vars, server_vars>>

\* _execute_tool, lines 342-350, for the tool get_tool has returned
LocalDispatch(handler) ==
    /\ probe.handler = "none"
    /\ probe' = [probe EXCEPT !.handler = handler]
    /\ reply' = SafeExecuteTool(probe.tool,
                                InjectedParameters(probe.tool.name, probe.parameters,
                                                   conversation_context),
                                handler)
    /\ UNCHANGED <<agent_vars, client_vars, server_vars>>

DispatchNext ==
    \/ \E path \in DocumentPaths : NewRun(path)
    \/ \E handler \in HandlerOutcomes : LocalDispatch(handler)

DispatchSpec == DispatchInit /\ [][DispatchNext]_vars

\* ------------------------------------------------------------------------
\* ToolRegistry (src/tools/base_tool.py) and the routes of ModernMCPServer
\* (src/mcp_services/modern_mcp_server.py) under ServerSpec
\* ------------------------------------------------------------------------
\* names tools are registered under, and the tool instances of one name
RegistryNames == {"echo", "search"}
ToolVersions == {"v1", "v2"}

\* the names requests ask for, and the session ids they carry
RequestedNames == {"echo", "nosuch"}
SessionIds == {"s1"}

\* what the registered handler does when the server calls it
ServerHandlerOutcomes == {"dict", "scalar", "raise"}

\* the positions of the items of a dict that have this key
ItemsNamed(tools, name) == { i \in 1..Len(tools) : tools[i].name = name }

RegisterAppending(tools, name, tool) == Append(tools, [name |-> name, tool |-> tool])

\* ToolRegistry.register: self.tools[tool.name] = tool
register(tools, name, tool) ==
    IF ItemsNamed(tools, name) = {}
    THEN Append(tools, [name |-> name, tool |-> tool])
    ELSE [i \in 1..Len(tools) |->
            IF tools[i].name = name THEN [name |-> name, tool |-> tool] ELSE tools[i]]

\* ToolRegistry.unregister: del self.tools[tool_name] when it is there
unregister(tools, name) ==
    LET other(item) == item.name # name IN SelectSeq(tools, other)

\* ToolRegistry.get_tool: self.tools.get(tool_name)
registry_get_tool(tools, name) ==
    IF ItemsNamed(tools, name) = {} THEN NONE
    ELSE tools[CHOOSE i \in ItemsNamed(tools, name) : TRUE].tool

\* tool_registry.register(tool); latest keeps the tool registered last under
\* each name and whether the name was there before
Register(name, tool) ==
    /\ registry' = register(registry, name, tool)
    /\ latest' = MapPut(latest, name, [tool |-> tool, again |-> name \in DOMAIN latest])
    /\ UNCHANGED <<server_tools, tool_handlers, sessions, request, frames, response, spc>>
    /\ UNCHANGED <<agent_vars, client_vars, call_vars>>

\* tool_registry.unregister(tool_name)
Unregister(name) ==
    /\ registry' = unregister(registry, name)
    /\ latest' = [n \in (DOMAIN latest) \ {name} |-> latest[n]]
    /\ UNCHANGED <<server_tools, tool_handlers, sessions, request, frames, response, spc>>
    /\ UNCHANGED <<agent_vars, client_vars, call_vars>>

\* ModernMCPServer.register_tool, called by _register_tools (line 89) for a
\* tool of the registry
ServerRegisterTool(name) ==
    /\ ItemsNamed(registry, name) # {}
    /\ server_tools' = server_tools \cup {name}
    /\ tool_handlers' = tool_handlers \cup {name}
    /\ UNCHANGED <<registry, latest, sessions, request, frames, response, spc>>
    /\ UNCHANGED <<agent_vars, client_vars, call_vars>>

\* ModernMCPServer.unregister_tool
ServerUnregisterTool(name) ==
    /\ name \in server_tools
    /\ server_tools' = server_tools \ {name}
    /\ tool_handlers' = tool_handlers \ {name}
    /\ UNCHANGED <<registry, latest, sessions, request, frames, response, spc>>
    /\ UNCHANGED <<agent_vars, client_vars, call_vars>>

\* the routes create_session and delete_session
CreateSession(sid) ==
    /\ sessions' = sessions \cup {sid}
    /\ UNCHANGED <<registry, latest, server_tools, tool_handlers, request, frames,
                   response, spc>>
    /\ UNCHANGED <<agent_vars, client_vars, call_vars>>

DeleteSession(sid) ==
    /\ sid \in sessions
    /\ sessions' = sessions \ {sid}
    /\ UNCHANGED <<registry, latest, server_tools, tool_handlers, request, frames,
                   response, spc>>
    /\ UNCHANGED <<agent_vars, client_vars, call_vars>>

\* a ToolCallResult the server returns, and an exception that leaves
\* ModernMCPServer._execute_tool
Returned(success, error, result) ==
    [exc |-> "none", success |-> success, error |-> error, result |-> result]
Escapes(exc) == [exc |-> exc, success |-> FALSE, error |-> NONE, result |-> JNull]

\* what a handler registered with register_tool does when it is called: the
\* exception it raises or the value it returns
HandlerRun(handler) ==
    CASE handler = "raise" -> [exc |-> "HandlerError", value |-> JNull]
      [] handler = "dict" -> [exc |-> "none", value |-> JObj([p \in {"data"} |-> JStr("ok")])]
      [] handler = "scalar" -> [exc |-> "none", value |-> JStr("ok")]

\* the handler _register_tools registers for a local tool is its
\* safe_execute (mcp_agent.py line 89), which returns a dict and never raises
SafeExecuteRun(name, parameters, handler) ==
    [exc |-> "none", value |-> SafeExecuteTool(ToolNamed(name), parameters, handler).payload]

\* ModernMCPServer._execute_tool, run being what the handler does
ExecuteWith(name, sid, run) ==
    IF name \notin server_tools THEN Escapes("ValueError")
    ELSE IF name \notin tool_handlers THEN Escapes("ValueError")
    \* ToolExecutionContext takes no None for conversation_context
    ELSE IF sid # NONE /\ sid \notin sessions THEN Escapes("ValidationError")
    ELSE IF run.exc # "none" THEN Returned(FALSE, run.exc, JNull)
    ELSE Returned(TRUE, NONE,
                  IF run.value.k = "obj" THEN run.value
                  ELSE JObj([p \in {"output"} |-> run.value]))

\* ModernMCPServer._execute_tool for a handler of any kind
server_execute_tool(name, sid, handler) == ExecuteWith(name, sid, HandlerRun(handler))

\* the answer of a route: the status of the transport and the body
Answer(status, success, error, result) ==
    [status |-> status, success |-> success, error |-> error, result |-> result]

CallRouteUncaught(req, handler) ==
    LET result == server_execute_tool(req.tool_name, req.session_id, handler)
    IN  IF ~req.valid THEN Answer(422, FALSE, NONE, JNull)
        ELSE IF result.exc # "none" THEN Answer(500, FALSE, NONE, JNull)
        ELSE Answer(200, result.success, result.error, result.result)

\* the route call_tool (lines 101-112); a body that is no ToolCallRequest is
\* turned down before the route runs
call_route(req, handler) ==
    LET result == server_execute_tool(req.tool_name, req.session_id, handler)
    IN  IF ~req.valid THEN Answer(422, FALSE, NONE, JNull)
        ELSE IF result.exc # "none" THEN Answer(200, FALSE, result.exc, JNull)
        ELSE Answer(200, result.success, result.error, result.result)

\* a frame of the event stream
Frame(event_type, status, success, error) ==
    [event_type |-> event_type, status |-> status, success |-> success, error |-> error]

TerminalFramesBoth(result) ==
    IF result.exc # "none"
    THEN <<Frame("tool_result", "done", FALSE, NONE), Frame("error", "failed", FALSE, result.exc)>>
    ELSE <<Frame("tool_result", "done", result.success, result.error)>>

\* generate_stream, lines 128-142: the frames yielded after the first
TerminalFrames(result) ==
    IF result.exc # "none"
    THEN <<Frame("error", "failed", FALSE, result.exc)>>
    ELSE <<Frame("tool_result", "done", result.success, result.error)>>

\* the server is ready for a request
Ready == spc \in {"idle", "closed", "aborted"}

\* a request to the route call_tool is answered; probe and reply belong to
\* the request that is being served
CallRoute(name, sid, valid, handler) ==
    /\ Ready
    /\ LET req == [route |-> "call", tool_name |-> name, session_id |-> sid,
                   valid |-> valid]
       IN  /\ request' = req
           /\ response' = call_route(req, handler)
    /\ frames' = <<>>
    /\ spc' = "idle"
    /\ UNCHANGED <<registry, latest, server_tools, tool_handlers, sessions>>
    /\ probe' = NoProbe
    /\ reply' = NoReply
    /\ UNCHANGED <<agent_vars, client_vars>>

\* the parameters of the requests for the local tool echo(text)
LocalCallParameters == {JObj([p \in {"text"} |-> JStr("hi")]), JObj(EmptyMap)}

\* a request to the route call_tool for the local tool echo, whose handler
\* is the safe_execute of the tool; probe and reply keep the call of
\* safe_execute and what it returned to the server
CallRouteOfLocalTool(sid, parameters, handler) ==
    /\ Ready
    /\ "echo" \in server_tools
    /\ request' = [route |-> "call", tool_name |-> "echo", session_id |-> sid,
                   valid |-> TRUE]
    /\ LET result == ExecuteWith("echo", sid, SafeExecuteRun("echo", parameters, handler))
       IN  response' = IF result.exc # "none"
                       THEN Answer(200, FALSE, result.exc, JNull)
                       ELSE Answer(200, result.success, result.error, result.result)
    /\ probe' = [tool |-> EchoTool, parameters |-> parameters, handler |-> handler]
    /\ reply' = SafeExecuteTool(EchoTool, parameters, handler)
    /\ frames' = <<>>
    /\ spc' = "idle"
    /\ UNCHANGED <<registry, latest, server_tools, tool_handlers, sessions>>
    /\ UNCHANGED <<agent_vars, client_vars>>

\* a request to the route stream_tool_call: generate_stream runs up to its
\* first yield (lines 118-126)
StreamBegins(name, sid, valid) ==
    /\ Ready
    /\ request' = [route |-> "stream", tool_name |-> name, session_id |-> sid,
                   valid |-> valid]
    /\ IF valid
       THEN /\ response' = Answer(200, FALSE, NONE, JNull)
            /\ frames' = <<Frame("tool_call", "started", FALSE, NONE)>>
            /\ spc' = "sent_started"
       ELSE /\ response' = Answer(422, FALSE, NONE, JNull)
            /\ frames' = <<>>
            /\ spc' = "idle"
    /\ UNCHANGED <<registry, latest, server_tools, tool_handlers, sessions>>
    /\ probe' = NoProbe
    /\ reply' = NoReply
    /\ UNCHANGED <<agent_vars, client_vars>>

\* generate_stream is resumed, runs the tool and yields (lines 128-142)
StreamExecutes(handler) ==
    /\ spc = "sent_started"
    /\ LET result == server_execute_tool(request.tool_name, request.session_id, handler)
       IN  frames' = frames \o TerminalFrames(result)
    /\ spc' = "sent_terminal"
    /\ UNCHANGED <<registry, latest, server_tools, tool_handlers, sessions, request,
                   response>>
    /\ UNCHANGED <<agent_vars, client_vars, call_vars>>

\* generate_stream is resumed after its last yield and returns
StreamEnds ==
    /\ spc = "sent_terminal"
    /\ spc' = "closed"
    /\ UNCHANGED <<registry, latest, server_tools, tool_handlers, sessions, request,
                   frames, response>>
    /\ UNCHANGED <<agent_vars, client_vars, call_vars>>

\* the client goes away: generate_stream is closed at the yield it waits in
StreamAborts ==
    /\ spc \in {"sent_started", "sent_terminal"}
    /\ spc' = "aborted"
    /\ UNCHANGED <<registry, latest, server_tools, tool_handlers, sessions, request,
                   frames, response>>
    /\ UNCHANGED <<agent_vars, client_vars, call_vars>>

ServerSpecInit ==
    /\ AgentInit
    /\ max_iterations = MaxIterations
    /\ streaming_enabled
    /\ ClientInit
    /\ CallInit
    /\ ServerInit

ServerNext ==
    \/ \E name \in RegistryNames, tool \in ToolVersions : Register(name, tool)
    \/ \E name \in RegistryNames : Unregister(name)
    \/ \E name \in RegistryNames : ServerRegisterTool(name)
    \/ \E name \in RegistryNames : ServerUnregisterTool(name)
    \/ \E sid \in SessionIds : CreateSession(sid)
    \/ \E sid \in SessionIds : DeleteSession(sid)
    \/ \E name \in RequestedNames, sid \in SessionIds \cup {NONE}, valid \in BOOLEAN,
          handler \in ServerHandlerOutcomes : CallRoute(name, sid, valid, handler)
    \/ \E sid \in SessionIds \cup {NONE}, parameters \in LocalCallParameters,
          handler \in HandlerOutcomes : CallRouteOfLocalTool(sid, parameters, handler)
    \/ \E name \in RequestedNames, sid \in SessionIds \cup {NONE}, valid \in BOOLEAN :
          StreamBegins(name, sid, valid)
    \/ \E handler \in ServerHandlerOutcomes : StreamExecutes(handler)
    \/ StreamEnds
    \/ StreamAborts

ServerSpec == ServerSpecInit /\ [][ServerNext]_vars

\* ------------------------------------------------------------------------
\* Properties
\* ------------------------------------------------------------------------
IsTerminal(ev) == ev.type \in TerminalTypes

TerminalCount(events) == Cardinality({ i \in 1..Len(events) : IsTerminal(events[i]) })

TypeCount(events, type) == Cardinality({ i \in 1..Len(events) : events[i].type = type })

\* number of loop passes of the current context that ran to their end
\* (each appends one tool entry to chat_history)
CompletedPasses ==
    Cardinality({ i \in 1..Len(conversation_context.chat_history) :
                    conversation_context.chat_history[i].role = "tool" })

\* C1: for max_iterations >= 1 and whatever the completion service and the
\* tools do, the completed event stream of a run holds exactly one terminal
\* event (final_answer or error).
C1_ExactlyOneTerminal ==
    \A r \in RunIds :
        (finished[r] /\ max_iterations >= 1) => TerminalCount(delivered[r]) = 1

\* C2: no event is delivered after the first terminal event: a terminal event
\* is always the last element of the stream.
C2_TerminalIsLast ==
    \A r \in RunIds :
        \A i \in 1..Len(delivered[r]) :
            IsTerminal(delivered[r][i]) => i = Len(delivered[r])

\* C3: every delivered tool_result has a tool_call of the same tool_name
\* before it, and the caller receives the events in the order in which the
\* loop yielded them (the delivered stream is a prefix of the yielded one).
C3_ResultAfterCallInOrder ==
    \A r \in RunIds :
        /\ Len(delivered[r]) <= Len(produced[r])
        /\ \A i \in 1..Len(delivered[r]) :
              /\ delivered[r][i] = produced[r][i]
              /\ delivered[r][i].type = "tool_result" =>
                    \E j \in 1..(i - 1) :
                        /\ delivered[r][j].type = "tool_call"
                        /\ delivered[r][j].tool_name = delivered[r][i].tool_name

\* a run that delivered two tool results, the second after the second call
C3_Witness ==
    \E r \in RunIds :
        /\ TypeCount(delivered[r], "tool_result") = 2
        /\ delivered[r][Len(delivered[r])].type = "tool_result"
        /\ delivered[r][Len(delivered[r]) - 1].type = "tool_call"

Last(events) == events[Len(events)]

\* a well-formed terminal event: a type and a text content
WellFormedTerminal(ev) ==
    /\ IsTerminal(ev)
    /\ ev.content \in {APOLOGY, NO_ANSWER, MAX_ITER_MESSAGE, INVALID_ACTION, "hi",
                       "LLMError", "TypeError", "AttributeError", "ValidationError"}

\* C4: when every awaited call returns or raises and the caller keeps
\* iterating, every run ends, after at most max_iterations loop passes, and
\* by then a well-formed terminal event has been delivered to the caller.
C4_RunTerminatesWithTerminal ==
    \A r \in RunIds :
        <>( /\ finished[r]
            /\ current_iteration <= max_iterations
            /\ \E i \in 1..Len(delivered[r]) : WellFormedTerminal(delivered[r][i]) )

\* a run that used up all three of its loop passes and has ended
C4_Witness ==
    \E r \in RunIds :
        /\ finished[r]
        /\ max_iterations = 3
        /\ current_iteration = 3
        /\ IsTerminal(Last(delivered[r]))

\* a loop pass starts in a step that takes the generator to the await of the
\* Think call
PassStarts(r) == pc[r] # "await_think" /\ pc'[r] = "await_think"

\* C5: the iteration counter stays within 0..max_iterations, changes only
\* when a loop pass starts and then by exactly one, and a pass starts only
\* while is_completed is false and the counter is below max_iterations.
C5_IterationCounter ==
    /\ [](0 <= current_iteration /\ current_iteration <= max_iterations)
    /\ [][ /\ (current_iteration' # current_iteration) => (\E r \in RunIds : PassStarts(r))
           /\ \A r \in RunIds :
                PassStarts(r) =>
                    /\ current_iteration' = current_iteration + 1
                    /\ current_iteration < max_iterations
                    /\ ~conversation_context'.is_completed ]_vars

\* the third loop pass of a run with max_iterations = 3 is under way
C5_Witness ==
    \E r \in RunIds :
        /\ pc[r] = "await_think"
        /\ current_iteration = 3
        /\ max_iterations = 3

\* the texts C6 lists: empty, prose without braces, truncated JSON, fenced
\* text, brace-free JSON that is not an object
C6Texts == MalformedTexts \cup NonObjectTexts

\* a valid action: a tool_call that names its tool
IsValidAction(a) ==
    /\ a.k = "obj"
    /\ HasKey(a, "type") /\ a.c["type"].k = "str" /\ a.c["type"].a = "tool_call"
    /\ HasKey(a, "tool_name") /\ a.c["tool_name"].k = "str"

\* the Decide step of run r has handled a completion text
DecidedOnText(r) == decide_exc[r] \notin {"unset", "LLMError"} /\ pc[r] # "await_decide"

\* C6: on each malformed completion text the Decide step returns a valid
\* action and lets no exception escape.
C6_DecideRobust ==
    \A r \in RunIds :
        (DecidedOnText(r) /\ response_text[r] \in C6Texts) =>
            (decide_exc[r] = "none" /\ IsValidAction(action[r]))

\* the synthesized fallback action
IsFallback(a) ==
    /\ a.k = "obj"
    /\ DOMAIN a.c = {"type", "tool_name", "parameters"}
    /\ a.c["type"] = JStr("tool_call")
    /\ a.c["tool_name"] = JStr(FINAL_ANSWER_NAME)
    /\ a.c["parameters"].k = "obj"
    /\ DOMAIN a.c["parameters"].c = {"answer"}
    /\ a.c["parameters"].c["answer"] = JStr(APOLOGY)

\* an object lacks "type" or "tool_name"
LacksFields(v) == v.k # "obj" \/ ~HasKey(v, "type") \/ ~HasKey(v, "tool_name")

\* the text is a JSON object whose action, nested or flat, lacks a required field
MissingActionFields(text) ==
    LET loaded == JsonLoads(_extract_json_from_response(text)) IN
    /\ loaded.ok
    /\ loaded.val.k = "obj"
    /\ IF HasKey(loaded.val, "action")
       THEN LacksFields(loaded.val.c["action"])
       ELSE LacksFields(loaded.val)

\* C7: when the Decide text is JSON whose action, nested or flat, lacks type
\* or tool_name, the Decide step returns the fallback action, with one call of
\* the completion service for the step.
C7_MissingFieldsFallback ==
    \A r \in RunIds :
        (DecidedOnText(r) /\ MissingActionFields(response_text[r])) =>
            /\ decide_exc[r] = "none"
            /\ IsFallback(action[r])
            /\ llm_calls[r] = 2 * current_iteration

\* the stream of the run is exactly these events
StreamIs(r, types, contents) ==
    /\ Len(delivered[r]) = Len(types)
    /\ \A i \in 1..Len(types) :
          delivered[r][i].type = types[i] /\ delivered[r][i].content = contents[i]

\* C8 as stated: with max_iterations = 3 and completions that are always
\* unparsable, the run makes one iteration and emits a tool_call for
\* final_answer followed by the final_answer with the fallback message.
C8_Original ==
    \A r \in RunIds :
        (finished[r] /\ max_iterations = 3 /\ unparsable_only[r]) =>
            /\ current_iteration = 1
            /\ \E i \in 1..Len(delivered[r]) :
                  /\ delivered[r][i].type = "tool_call"
                  /\ delivered[r][i].tool_name = FINAL_ANSWER_NAME
                  /\ i < Len(delivered[r])
            /\ Last(delivered[r]).type = "final_answer"
            /\ Last(delivered[r]).content = APOLOGY

\* C8 amended: with max_iterations = 3 and completions that are always
\* unparsable, the run makes one iteration, ends with current_iteration = 1,
\* and its stream is the thinking event followed by the final_answer with the
\* fallback message; no tool_call event is emitted for final_answer.
C8_UnparsableRun ==
    \A r \in RunIds :
        (finished[r] /\ max_iterations = 3 /\ unparsable_only[r]) =>
            /\ current_iteration = 1
            /\ llm_calls[r] = 2
            /\ tool_calls[r] = 0
            /\ StreamIs(r, <<"thinking", "final_answer">>, <<"plan", APOLOGY>>)
            /\ conversation_context.is_completed

C8_Witness ==
    \E r \in RunIds :
        /\ finished[r]
        /\ max_iterations = 3
        /\ unparsable_only[r]
        /\ response_text[r] = <<Wd("prose"), WS, Wd("prose")>>

\* C9: when max_iterations loop passes ran to their end, the run ends with
\* exactly one final_answer event, carrying the fixed message, right after the
\* last tool_result, and with no error event.
C9_BoundExhaustion ==
    \A r \in RunIds :
        (finished[r] /\ max_iterations >= 1 /\ CompletedPasses = max_iterations) =>
            /\ Last(delivered[r]) = Ev("final_answer", MAX_ITER_MESSAGE, NONE, JNull, NoResult)
            /\ TypeCount(delivered[r], "final_answer") = 1
            /\ TypeCount(delivered[r], "error") = 0
            /\ delivered[r][Len(delivered[r]) - 1].type = "tool_result"
            /\ TypeCount(delivered[r], "tool_result") = max_iterations

C9_Witness ==
    \E r \in RunIds :
        /\ finished[r]
        /\ max_iterations = 3
        /\ CompletedPasses = 3

\* the run has yielded the error event of a failed completion-service call
LLMFailed(r) ==
    \E i \in 1..Len(produced[r]) :
        produced[r][i].type = "error" /\ produced[r][i].content = "LLMError"

\* C10: when the completion service reports failure in Think or Decide, the
\* run yields one error event, which is its only terminal and its last event;
\* the failed call is not repeated, and no call of the completion service, no
\* tool call and no event follows.
C10_LLMFailureStops ==
    [][ \A r \in RunIds :
          /\ LLMFailed(r)' =>
                /\ Last(produced'[r]).type = "error"
                /\ Last(produced'[r]).content = "LLMError"
                /\ TerminalCount(produced'[r]) = 1
                /\ pc'[r] \in {"yield_exc_error", "done"}
                /\ llm_calls'[r] = llm_calls[r]
                /\ tool_calls'[r] = tool_calls[r]
          /\ LLMFailed(r) => produced'[r] = produced[r] ]_vars

\* the Decide call of the second pass failed and the run has ended
C10_Witness ==
    \E r \in RunIds :
        /\ finished[r]
        /\ LLMFailed(r)
        /\ llm_calls[r] = 4
        /\ tool_calls[r] = 1

\* ------------------------------------------------------------------------
\* Properties of tool execution (ToolSpec)
\* ------------------------------------------------------------------------
\* the tool the pending call of run r names
ToolOf(r) == NameOf(ActOn(action[r]).tool_name)

\* the result came over the Protocol Client
ViaClient(res) == res.via \in {"stream", "sync"}

\* the tool_result events run r has yielded
ToolResultEvents(r) == { i \in 1..Len(produced[r]) : produced[r][i].type = "tool_result" }

\* after the tool_result event the loop goes on: the next pass starts, or,
\* at the bound, the code after the loop runs
LoopGoesOn(r) ==
    (pc[r] = "yield_tool_result" /\ pc'[r] # "yield_tool_result") =>
        IF current_iteration < max_iterations
        THEN pc'[r] = "await_think"
        ELSE pc'[r] = "yield_max_final"

\* C11: a tool the local registry holds is executed by its safe_execute and
\* its result never comes from stream_tool_call or call_tool, also when the
\* local execution fails; a client result belongs to a tool the registry
\* does not hold.
C11_LocalNeverCrosses ==
    \A r \in RunIds :
        \A i \in ToolResultEvents(r) :
            LET ev == produced[r][i] IN
            /\ ev.tool_name \in LocalTools => ev.result.via \in {"local", "except"}
            /\ ViaClient(ev.result) => ev.tool_name \notin LocalTools

\* the local tool failed and its result is the local one
C11_Witness ==
    \E r \in RunIds :
        \E i \in ToolResultEvents(r) :
            /\ produced[r][i].tool_name = "echo"
            /\ ~produced[r][i].result.success
            /\ produced[r][i].result.via = "local"

\* the remote side delivers a result for the call: the stream starts with
\* the tool_result chunk, or (no stream, or an empty one) call_tool gets content
SyncDelivers(env) == env.sync \in {"json_dict", "text", "no_text", "empty"}

Delivers(env) ==
    IF streaming_enabled
    THEN \/ env.stream.chunks # <<>> /\ Head(env.stream.chunks) = "tool_result"
         \/ env.stream = [chunks |-> <<>>, raises |-> FALSE] /\ SyncDelivers(env)
    ELSE SyncDelivers(env)

NoTerminalResult(stream) ==
    \A i \in 1..Len(stream.chunks) : stream.chunks[i] \notin {"tool_result", "error"}

\* C13: with streaming enabled, when the remote stream ends without a
\* terminal result (it ends early, the transport drops, the call raises),
\* _execute_tool returns what call_tool returns.
C13_FallbackToSync ==
    [][ \A r \in RunIds : \A env \in ExecEnvs :
          (/\ ToolReturns(r, env)
           /\ streaming_enabled
           /\ ToolOf(r) \notin LocalTools
           /\ NoTerminalResult(env.stream)) =>
              tool_result'[r] =
                  Result(call_tool(env.sync).success, "sync", call_tool(env.sync).error, NONE) ]_vars

\* C19: when the handler of a local tool raises, the result is
\* {success: false, error, tool_name}; the loop yields it as a tool_result
\* event and goes on to the next pass.
C19_HandlerExceptionContained ==
    [][ \A r \in RunIds :
          /\ LoopGoesOn(r)
          /\ \A env \in ExecEnvs :
               (ToolReturns(r, env) /\ ToolOf(r) \in LocalTools /\ env.handler = "raise") =>
                  LET res == tool_result'[r] IN
                  /\ ~res.success
                  /\ res.error # NONE
                  /\ res.tool_name = ToolOf(r)
                  /\ res.via = "local"
                  /\ Last(produced'[r]) = Ev("tool_result", "tool done", ToolOf(r), JNull, res)
                  /\ pc'[r] = "yield_tool_result" ]_vars

\* the handler raised in the first pass and the second pass has started
C19_Witness ==
    \E r \in RunIds :
        /\ Len(produced[r]) = 4
        /\ produced[r][3].type = "tool_result"
        /\ produced[r][3].result = safe_execute("echo", JObj([p \in {"text"} |-> JStr("hi")]), "raise")
        /\ produced[r][3].result.error = "HandlerError"
        /\ produced[r][4].type = "thinking"

\* C20: a payload of the handler that declares success = false with an error
\* comes out of safe_execute with success = false.
C20_DeclaredFailureSurfaced ==
    \A r \in RunIds :
        \A i \in ToolResultEvents(r) :
            produced[r][i].result.error = "declared" => ~produced[r][i].result.success

\* ------------------------------------------------------------------------
\* Properties of concurrent runs (TwoRunSpec)
\* ------------------------------------------------------------------------
\* the streams a run of TwoRunSpec delivers when it is the only run: k full
\* passes, then a pass that ends in the final answer, or, after
\* max_iterations passes, the final answer of the bound
SoloStream(events) ==
    \E k \in 0..max_iterations :
        /\ Len(events) = 3 * k + (IF k = max_iterations THEN 1 ELSE 2)
        /\ \A j \in 0..(k - 1) :
              /\ events[3 * j + 1].type = "thinking"
              /\ events[3 * j + 2].type = "tool_call"
              /\ events[3 * j + 3].type = "tool_result"
        /\ IF k = max_iterations
           THEN events[3 * k + 1] = Ev("final_answer", MAX_ITER_MESSAGE, NONE, JNull, NoResult)
           ELSE /\ events[3 * k + 1].type = "thinking"
                /\ events[3 * k + 2] = Ev("final_answer", "hi", NONE, JNull, NoResult)

\* C15: two runs started on the same engine instance do not disturb each
\* other: while a run waits for its decision the iteration count is the
\* number of its own passes, the chat history holds its own entries, the
\* completion flag is its own, and the events it delivers are those of the
\* run executed alone.
C15_RunsIndependent ==
    \A r \in AllRuns :
        /\ pc[r] = "await_decide" =>
              /\ llm_calls[r] = 2 * current_iteration
              /\ Len(conversation_context.chat_history) = 1 + tool_calls[r]
              /\ ~conversation_context.is_completed
        /\ finished[r] => SoloStream(delivered[r])

\* ------------------------------------------------------------------------
\* Properties of the client (ClientSpec)
\* ------------------------------------------------------------------------
InConnect(c) == cpc[c] \in {"aenter_client", "aenter_session", "initialize"}

OpenTransports == {t \in Callers : transport[t] = "open"}

\* C14: when two callers use one disconnected client concurrently, at most
\* one transport is established and retained: a caller inside connect still
\* finds its own client_context, session_context and session in the client,
\* and every opened transport that is not closed is the one the client
\* refers to.
C14_OneConnection ==
    /\ Cardinality(OpenTransports) <= 1
    /\ \A c \in Callers :
          /\ InConnect(c) => client_context = c
          /\ cpc[c] \in {"aenter_session", "initialize"} => session_context = c
          /\ cpc[c] = "initialize" => session = c
    /\ \A t \in OpenTransports : client_context = t

\* caller c begins an operation in this step
Begins(c) == cpc[c] = "idle" /\ cpc'[c] # "idle"

\* connect or get_session raises to caller c in this step
ConnectFails(c) == raised[c] = "none" /\ raised'[c] # "none"

\* no other caller has begun a connect of its own
ConnectsAlone(c) == \A d \in Callers \ {c} : transport[d] = "none"

\* C16: an operation begun on a connected client opens no transport and
\* leaves the session and the other fields of the client as they are, and
\* connect itself returns at once; when the connect of a caller that
\* connects alone fails, by an error of the transport or by the 15 s bound
\* of get_session, an error is raised to the caller and connected is false.
C16_ConnectContract ==
    [][\A c \in Callers :
          /\ (Begins(c) /\ connected) =>
                /\ UNCHANGED <<connected, session, client_context, session_context,
                               transport>>
                /\ op'[c] = "connect" =>
                      /\ cpc'[c] = "done"
                      /\ raised'[c] = "none"
                      /\ ret'[c].outcome = "noop"
          /\ (ConnectFails(c) /\ ConnectsAlone(c)) =>
                /\ ~connected'
                /\ cpc'[c] = "done"
                /\ raised'[c] \in {"ConnectionError", "Exception"}
                /\ ret'[c].outcome = "connect_timeout" => raised'[c] = "ConnectionError"
      ]_vars

C16_Witness ==
    \E c \in Callers :
       /\ cpc[c] = "done"
       /\ op[c] = "call_tool"
       /\ ret[c].outcome = "connect_timeout"
       /\ raised[c] = "ConnectionError"
       /\ transport[c] = "open"
       /\ ~connected
       /\ ConnectsAlone(c)

\* the local tools and final_answer
DegradedCatalog == <<ToolDef("echo", "local"), ToolDef(FINAL_ANSWER_NAME, "reserved")>>

\* callers that have called initialize
Registrants == {c \in Callers : op[c] = "register_tools"}

\* list_tools of caller c has ended without a list from the server
ListingFailed(c) ==
    /\ cpc[c] = "done"
    /\ op[c] = "register_tools"
    /\ ret[c].outcome # "tools"

\* C17: list_tools never raises; when the connection times out or fails,
\* the call on the session fails or the answer is malformed, it returns the
\* empty list, and the catalog assembled by that one initialize is the
\* local tools followed by final_answer.
C17_ListToolsDegrades ==
    \A c \in Callers :
       (cpc[c] = "done" /\ op[c] = "register_tools") =>
          /\ ret[c].exc = "none"
          /\ ListingFailed(c) =>
                /\ ret[c].tools = <<>>
                /\ Registrants = {c} => available_tools = DegradedCatalog
          /\ (~ListingFailed(c) /\ Registrants = {c}) =>
                available_tools = DegradedCatalog \o <<ToolDef("remote_search", "remote")>>

C17_Witness ==
    \E c \in Callers :
       /\ ListingFailed(c)
       /\ ret[c].outcome = "malformed"
       /\ connected
       /\ Registrants = {c}
       /\ available_tools = DegradedCatalog

\* the call of caller c met an error of the transport or of the protocol
CallFailed(c) ==
    /\ cpc[c] = "done"
    /\ op[c] = "call_tool"
    /\ ret[c].outcome \in {"connect_error", "connect_timeout", "raise", "is_error"}

\* C18: call_tool never lets an exception escape: a failure to connect, an
\* exception of the call on the session and an answer flagged as an error
\* are each returned as a result with success false and the error set.
C18_CallToolContained ==
    \A c \in Callers :
       (cpc[c] = "done" /\ op[c] = "call_tool") =>
          /\ ret[c].exc = "none"
          /\ CallFailed(c) => (~ret[c].success /\ ret[c].error # NONE)
          /\ ret[c].success => ret[c].error = NONE

C18_Witness ==
    \E c \in Callers :
       /\ CallFailed(c)
       /\ ret[c].outcome = "connect_error"
       /\ raised[c] = "Exception"
       /\ ~ret[c].success
       /\ ret[c].error # NONE

\* ------------------------------------------------------------------------
\* Properties of the conversation context (Spec)
\* ------------------------------------------------------------------------
\* the final_answer events run r has yielded
FinalAnswerEvents(r) ==
    { i \in 1..Len(produced[r]) : produced[r][i].type = "final_answer" }

\* C29: once a run has yielded a final_answer event, its context is
\* terminal: is_completed is true and final_answer is the text of the event,
\* for the answer of a final_answer action as for the answer made up when
\* the iteration bound is exhausted.
C29_FinalAnswerRecorded ==
    \A r \in RunIds : \A i \in FinalAnswerEvents(r) :
        /\ conversation_context.is_completed
        /\ conversation_context.final_answer = JStr(produced[r][i].content)

\* C30: the current_iteration field of the context counts the loop passes:
\* whenever a run is under way or has ended it equals the counter of the
\* engine, which is the iterations_used value of process.
C30_ContextCountsPasses ==
    \A r \in RunIds :
        pc[r] # "start" =>
            conversation_context.current_iteration = current_iteration

\* ------------------------------------------------------------------------
\* Properties of the local tool call (ToolSpec)
\* ------------------------------------------------------------------------
\* the parameters {"text": "hi"}
TextHi == JObj([p \in {"text"} |-> JStr("hi")])

\* the dict {"output": "hi", "success": True}
OutputHi ==
    JObj([p \in {"output", "success"} |->
            IF p = "output" THEN JStr("hi") ELSE JBool("true")])

\* C28: with the local tool echo(text) and the decided action echo with
\* parameters {text: "hi"}, the run yields the tool_call event of echo with
\* these parameters and next the tool_result event of echo; when the handler
\* returns its text as a bare value, the result is the dict with output set
\* to "hi", to which safe_execute adds success = True.
C28_EchoScenario ==
    [][ \A r \in RunIds : \A env \in ExecEnvs :
          (/\ ToolReturns(r, env)
           /\ ToolOf(r) = "echo"
           /\ ActOn(action[r]).parameters = TextHi
           /\ env.handler = "output") =>
              LET n == Len(produced'[r]) IN
              /\ produced'[r][n - 1] = Ev("tool_call", "call tool", "echo", TextHi, NoResult)
              /\ produced'[r][n].type = "tool_result"
              /\ produced'[r][n].tool_name = "echo"
              /\ produced'[r][n].result.payload = OutputHi
              /\ produced'[r][n].result.handler_kwargs = TextHi
              /\ produced'[r][n].result.via = "local" ]_vars

C28_Witness ==
    \E r \in RunIds :
        /\ Len(produced[r]) = 3
        /\ produced[r][2] = Ev("tool_call", "call tool", "echo", TextHi, NoResult)
        /\ produced[r][3].type = "tool_result"
        /\ produced[r][3].result.payload = OutputHi

\* ------------------------------------------------------------------------
\* Properties of parameter validation (ParamSpec)
\* ------------------------------------------------------------------------
\* safe_execute has been called and has returned
Called == probe.handler # "none"

\* the dict returned is the failure dict: success False, with an error
FailureReply ==
    /\ reply.payload.k = "obj"
    /\ reply.payload.c["success"] = JBool("false")
    /\ HasKey(reply.payload, "error")

\* execute was called
HandlerRan == reply.handler_kwargs # JNull

\* the value given for count, and its declared type
Given == probe.parameters.c["count"]
Declared == probe.tool.parameters["count"].type

\* count is given, with a value that is not None
CountGiven == HasKey(probe.parameters, "count") /\ Given # JNull

\* C21: when a parameter of get_required_parameters is missing from the
\* call, safe_execute returns the failure dict (success False, an error, the
\* tool name) and does not call execute.
C21_MissingRequiredFails ==
    (Called /\ \E p \in probe.tool.required_parameters : ~HasKey(probe.parameters, p)) =>
        /\ FailureReply
        /\ reply.payload.c["tool_name"] = JStr("probe")
        /\ ~HandlerRan

C21_Witness ==
    /\ Called
    /\ probe.handler = "payload"
    /\ probe.tool.required_parameters = {"count"}
    /\ probe.parameters = JObj([p \in {"extra"} |-> JStr("keep")])
    /\ reply.payload = FailureDict("ValueError", "probe")
    /\ ~HandlerRan

\* C22: execute receives the parameters converted to their declared type:
\* "3" declared integer arrives as the int 3, a numeric str declared number
\* as a float, a str declared boolean as True exactly when it is one of
\* true, 1, yes, on in any case, a value that is no list declared array as
\* the list of that one value; a value that is no dict declared object
\* gives the failure dict and execute is not called; a parameter the tool
\* does not declare arrives as it was given.
C22_CoercedByType ==
    Called =>
        /\ (CountGiven /\ Declared = "object" /\ Given.k # "obj") =>
              (FailureReply /\ ~HandlerRan)
        /\ HandlerRan =>
              LET got == reply.handler_kwargs IN
              /\ DOMAIN got.c = DOMAIN probe.parameters.c
              /\ HasKey(probe.parameters, "extra") => got.c["extra"] = JStr("keep")
              /\ CountGiven =>
                    /\ (Declared = "integer" /\ Given = JStr("3")) => got.c["count"] = JNum("3")
                    /\ (Declared = "integer") => (got.c["count"].k = "num" /\ got.c["count"].a \in IntLiterals)
                    /\ (Declared = "number" /\ Given = JStr("3")) => got.c["count"] = JNum("3.0")
                    /\ (Declared = "number" /\ Given = JStr("3.5")) => got.c["count"] = JNum("3.5")
                    /\ (Declared = "number") => (got.c["count"].k = "num" /\ got.c["count"].a \in FloatLiterals)
                    /\ (Declared = "boolean") =>
                          got.c["count"] =
                             IF Given \in {JStr("Yes"), JBool("true")}
                             THEN JBool("true") ELSE JBool("false")
                    /\ (Declared = "array") =>
                          got.c["count"] = IF Given.k = "arr" THEN Given ELSE JArr(<<Given>>)
                    /\ (Declared = "object") => got.c["count"] = Given
                    /\ (Declared = "string") => got.c["count"].k = "str"

C22_Witness ==
    /\ Called
    /\ probe.handler = "payload"
    /\ Declared = "integer"
    /\ probe.parameters = JObj([p \in {"count", "extra"} |->
                                  IF p = "count" THEN JStr("3") ELSE JStr("keep")])
    /\ reply.handler_kwargs = JObj([p \in {"count", "extra"} |->
                                      IF p = "count" THEN JNum("3") ELSE JStr("keep")])
    /\ reply.payload.c["success"] = JBool("true")

\* ------------------------------------------------------------------------
\* Properties of the tool catalog (ClientSpec)
\* ------------------------------------------------------------------------
\* the entries of the catalog under one name
EntriesNamed(n) == { i \in 1..Len(available_tools) : available_tools[i].name = n }

\* every initialize that was called has returned
AllRegistered == \A c \in Registrants : cpc[c] = "done"

\* C23: initialize is idempotent on the catalog: when two calls of it have
\* returned and were given the same list by the server, available_tools has
\* as many entries as one call gives: the local tool and final_answer, and
\* the one tool of the server that bears a new name when the server
\* answered.
C23_InitializeIdempotent ==
    \A c, d \in Callers :
       (/\ c # d
        /\ Registrants = {c, d}
        /\ AllRegistered
        /\ ret[c].tools = ret[d].tools) =>
           Len(available_tools) = IF ret[c].tools = <<>> THEN 2 ELSE 3

\* C24: after one catalog assembly, a tool of the server under the name of
\* a local tool or under final_answer is not in the catalog, the entry of
\* that name is the local one, and no name has two entries.
C24_LocalPrecedence ==
    \A c \in Callers :
       (Registrants = {c} /\ AllRegistered) =>
          /\ \A n \in {"echo", FINAL_ANSWER_NAME, "remote_search"} :
                Cardinality(EntriesNamed(n)) <= 1
          /\ \A i \in EntriesNamed("echo") : available_tools[i].origin = "local"
          /\ \A i \in EntriesNamed(FINAL_ANSWER_NAME) : available_tools[i].origin = "reserved"
          /\ EntriesNamed("echo") # {}
          /\ EntriesNamed(FINAL_ANSWER_NAME) # {}
          /\ ret[c].outcome = "tools" => EntriesNamed("remote_search") # {}

C24_Witness ==
    \E c \in Callers :
       /\ Registrants = {c}
       /\ AllRegistered
       /\ ret[c].outcome = "tools"
       /\ ret[c].tools = RemoteListing
       /\ available_tools = DegradedCatalog \o <<ToolDef("remote_search", "remote")>>

\* ------------------------------------------------------------------------
\* Properties of the registry and of the server routes (ServerSpec)
\* ------------------------------------------------------------------------
\* C25: after any sequence of register (and unregister) calls the registry
\* holds exactly one entry for each name that is registered and none for any
\* other name, and get_tool(name) returns the tool registered last under
\* that name.
C25_RegisterLastWins ==
    \A name \in RegistryNames :
        IF name \in DOMAIN latest
        THEN /\ Cardinality(ItemsNamed(registry, name)) = 1
             /\ registry_get_tool(registry, name) = latest[name].tool
        ELSE /\ ItemsNamed(registry, name) = {}
             /\ registry_get_tool(registry, name) = NONE

\* a name registered a second time with another tool, after another name
C25_Witness ==
    /\ "echo" \in DOMAIN latest
    /\ latest["echo"].again
    /\ Len(registry) = 2
    /\ registry[1] = [name |-> "echo", tool |-> "v2"]
    /\ registry[2].name = "search"

\* C26: a well-formed request to the route call_tool for a name the server
\* has no tool for is answered with status 200 and a ToolCallResult whose
\* success is false and whose error is set, never with an error status.
C26_UnknownToolIsPayloadError ==
    [][\A name \in RequestedNames, sid \in SessionIds \cup {NONE},
          handler \in ServerHandlerOutcomes :
            (CallRoute(name, sid, TRUE, handler) /\ name \notin server_tools)
                => /\ response'.status = 200
                   /\ ~response'.success
                   /\ response'.error # NONE]_vars

C26_Witness ==
    /\ request = [route |-> "call", tool_name |-> "nosuch", session_id |-> NONE,
                  valid |-> TRUE]
    /\ response = Answer(200, FALSE, "ValueError", JNull)

\* the frames of a stream: the started frame first, then at most one
\* terminal frame
Started(frame) == frame.event_type = "tool_call" /\ frame.status = "started"
Terminal(frame) == frame.event_type \in {"tool_result", "error"}
StreamShape ==
    /\ spc = "sent_started" => Len(frames) = 1 /\ Started(frames[1])
    /\ spc \in {"sent_terminal", "closed"} =>
          Len(frames) = 2 /\ Started(frames[1]) /\ Terminal(frames[2])
    /\ spc = "aborted" =>
          /\ Len(frames) \in {1, 2}
          /\ Started(frames[1])
          /\ Len(frames) = 2 => Terminal(frames[2])

\* C27: every stream of the route stream_tool_call carries the started frame
\* first and then exactly one terminal frame (tool_result or error); once the
\* terminal frame is sent the stream gets no further frame and can only end,
\* and for a name the server has no tool for the terminal frame is the error
\* frame.
C27_StreamFrames ==
    [][/\ StreamShape'
       /\ spc = "sent_terminal" =>
            frames' = frames /\ spc' \in {"sent_terminal", "closed", "aborted"}
       /\ \A handler \in ServerHandlerOutcomes :
            (StreamExecutes(handler) /\ request.tool_name \notin server_tools)
                => frames' = <<Frame("tool_call", "started", FALSE, NONE),
                               Frame("error", "failed", FALSE, "ValueError")>>]_vars

C27_Witness ==
    /\ spc = "closed"
    /\ request.route = "stream"
    /\ request.tool_name = "nosuch"
    /\ Len(frames) = 2
    /\ frames[2].event_type = "error"

\* ------------------------------------------------------------------------
\* Properties of the release of transports (ClientSpec)
\* ------------------------------------------------------------------------
\* C31: when the connection attempt of a caller that connects alone has
\* ended and the client is disconnected, the transport opened during that
\* attempt is not open any more, whether the attempt ended by a timeout, by
\* an error of the transport or by cancellation.
C31_TransportsReleased ==
    \A c \in Callers :
        (cpc[c] = "done" /\ ~connected /\ ConnectsAlone(c)) => transport[c] # "open"

\* ------------------------------------------------------------------------
\* Properties of the streamed remote call (ToolSpec)
\* ------------------------------------------------------------------------
\* C32: with streaming enabled, the chunks of code or partial text the remote
\* stream delivers before its terminal chunk do not change what
\* _execute_tool returns: the result of the terminal tool_result chunk, or
\* the failure built from the terminal error chunk.
C32_IntermediateEventsIgnored ==
    [][ \A r \in RunIds : \A env \in ExecEnvs :
          (/\ ToolReturns(r, env)
           /\ streaming_enabled
           /\ ToolOf(r) \notin LocalTools) =>
              LET terminal == FirstTerminalEvent(env.stream.chunks) IN
              /\ terminal = "tool_result" =>
                    tool_result'[r] = Result(TRUE, "stream", NONE, NONE)
              /\ terminal = "error" =>
                    tool_result'[r] = Result(FALSE, "stream", "stream error", ToolOf(r)) ]_vars

\* ------------------------------------------------------------------------
\* Properties of the execution of a tool by the server (ServerSpec)
\* ------------------------------------------------------------------------
\* C33: a well-formed request to the route call_tool for a tool the server
\* holds runs the handler and is answered with its outcome whatever the
\* session_id is (omitted, an existing session, a session never created or
\* deleted): the answer is the one of the same request without session_id.
C33_SessionIndependent ==
    [][\A name \in RequestedNames, sid \in SessionIds \cup {NONE},
          handler \in ServerHandlerOutcomes :
            (CallRoute(name, sid, TRUE, handler) /\ name \in server_tools)
                => LET outcome == server_execute_tool(name, NONE, handler)
                   IN  response' = Answer(200, outcome.success, outcome.error,
                                          outcome.result)]_vars

\* the session_id of the request is one the server can use
SessionUsable(sid) == sid = NONE \/ sid \in sessions

\* C34: for the local tool echo, registered with the server with its
\* safe_execute as handler, the ToolCallResult of the server has success
\* true only when the tool succeeded; when the execution failed (a required
\* parameter is missing, or the handler raises) it has success false and the
\* message in error.
C34_ServerSuccessIsToolSuccess ==
    [][\A sid \in SessionIds \cup {NONE}, parameters \in LocalCallParameters,
          handler \in HandlerOutcomes :
            (CallRouteOfLocalTool(sid, parameters, handler) /\ SessionUsable(sid))
                => LET succeeded == reply'.payload.c["success"].a = "true" IN
                   /\ response'.success <=> succeeded
                   /\ ~succeeded => response'.error # NONE]_vars

\* ------------------------------------------------------------------------
\* Properties of the call of a resolved local tool (DispatchSpec)
\* ------------------------------------------------------------------------
\* the file_path of the decided action is missing, None, empty or the name
\* of a type or a bracketed word in place of a path
PlaceholderInputs == {JStr("string"), JStr("<PATH>"), JStr(" filepath ")}
LacksFilePath(parameters) ==
    \/ ~HasKey(parameters, "file_path")
    \/ parameters.c["file_path"] \in {JNull, JStr("")} \cup PlaceholderInputs

\* the file_path of the decided action is a path
HasRealPath(parameters) ==
    HasKey(parameters, "file_path") /\ parameters.c["file_path"] = JStr("/data/report.pdf")

\* the context of the run carries a document_file_path
CarriesPath == ContextFilePath(conversation_context) \notin {NONE, ""}

\* C35: when the resolved tool is document_parser, its file_path is missing,
\* empty or a placeholder and the context carries a document_file_path, the
\* tool is called with file_path set to the path of the context and its
\* other parameters as decided; when file_path is a real path, or the
\* context carries no path, or the tool is another one, the tool is called
\* with the parameters of the decided action.
C35_FilePathFromContext ==
    Called =>
        LET tool == probe.tool
            path == ContextFilePath(conversation_context)
            withPath == JObj(MapPut(probe.parameters.c, "file_path", JStr(path)))
        IN  /\ (tool.name = "document_parser" /\ LacksFilePath(probe.parameters) /\ CarriesPath)
                  => /\ reply = SafeExecuteTool(tool, withPath, probe.handler)
                     /\ reply.handler_kwargs.k = "obj"
                     /\ reply.handler_kwargs.c["file_path"] = JStr(path)
            /\ (tool.name # "document_parser" \/ HasRealPath(probe.parameters) \/ ~CarriesPath)
                  => reply = SafeExecuteTool(tool, probe.parameters, probe.handler)

\* document_parser decided with the placeholder "string" and extract_tables
\* was called with the path of the context and succeeded
C35_Witness ==
    /\ Called
    /\ probe.tool = DocumentParserTool
    /\ probe.parameters = JObj([p \in {"file_path", "extract_tables"} |->
                                  IF p = "file_path" THEN JStr("string") ELSE JBool("true")])
    /\ conversation_context.document_file_path = "/uploads/a.docx"
    /\ reply.handler_kwargs =
          JObj([p \in {"file_path", "extract_tables"} |->
                  IF p = "file_path" THEN JStr("/uploads/a.docx") ELSE JBool("true")])
    /\ reply.payload.c["success"] = JBool("true")

\* ------------------------------------------------------------------------
\* Properties of the context of successive runs (TwoRunSpec)
\* ------------------------------------------------------------------------
\* run r is under way, and no other run is
Active(r) == pc[r] \notin {"start", "done"}
Alone(r) == \A o \in AllRuns \ {r} : ~Active(o)

\* the entries of a chat history that record a tool call
ToolEntries(history) == { i \in 1..Len(history) : history[i].role = "tool" }

\* history h has grown into g by one entry of a tool call
GrownByToolEntry(h, g) ==
    /\ Len(g) = Len(h) + 1
    /\ SubSeq(g, 1, Len(h)) = h
    /\ g[Len(g)].role = "tool"

\* C36: a run that starts while no other run is under way thinks first on a
\* fresh context, whatever the runs before it left behind: chat_history is
\* the one user message of the run, is_completed is false, final_answer is
\* unset and the iteration counter of the context is 0; while the run goes
\* on alone, chat_history is only appended to, by one tool entry at the end
\* of each tool call.
C36_FreshContextPerRun ==
    [][\A r \in AllRuns :
          (Alone(r) /\ Alone(r)') =>
             /\ (pc[r] = "start" /\ pc'[r] = "await_think") =>
                   LET ctx == conversation_context' IN
                   /\ ctx.chat_history = <<Message("user", ctx.user_query, NONE, NoResult)>>
                   /\ ~ctx.is_completed
                   /\ ctx.final_answer = JNull
                   /\ ctx.current_iteration = 0
             /\ (Active(r) /\ pc[r] # "yield_tool_result") =>
                   conversation_context'.chat_history = conversation_context.chat_history
             /\ (pc[r] = "yield_tool_result" /\ pc'[r] # "yield_tool_result") =>
                   GrownByToolEntry(conversation_context.chat_history,
                                    conversation_context'.chat_history)
      ]_vars

\* the second run waits for its first thought on a fresh context after the
\* first run made a tool call and ended with its final answer
C36_Witness ==
    \E r \in AllRuns : \E o \in AllRuns \ {r} :
        /\ pc[o] = "done"
        /\ tool_calls[o] = 1
        /\ Len(delivered[o]) > 0
        /\ Last(delivered[o]).type = "final_answer"
        /\ pc[r] = "await_think"
        /\ llm_calls[r] = 1
        /\ conversation_context.chat_history = <<Message("user", "q1", NONE, NoResult)>>
        /\ ~conversation_context.is_completed

\* ------------------------------------------------------------------------
\* Properties of the final_answer action (ToolSpec)
\* ------------------------------------------------------------------------
\* the decided action is a tool call that names final_answer
NamesFinalAnswer(act) ==
    /\ act.k = "obj"
    /\ DictGet(act, "type", JNull) = JStr("tool_call")
    /\ DictGet(act, "tool_name", JNull) = JStr(FINAL_ANSWER_NAME)

\* C37: a decided action that names final_answer is never dispatched as a
\* tool, also when the remote catalog holds a tool of that name: no
\* tool_call or tool_result event carries the name, _execute_tool is never
\* awaited for it and the count of tool calls stays; the action yields the
\* final answer (or the error of a malformed answer) and the run ends.
C37_FinalAnswerNotDispatched ==
    [][\A r \in RunIds :
          /\ (/\ pc[r] = "await_decide"
              /\ pc'[r] # "await_decide"
              /\ decide_exc'[r] = "none"
              /\ NamesFinalAnswer(action'[r])) =>
                 /\ pc'[r] \in {"yield_final", "yield_exc_error"}
                 /\ Last(produced'[r]).type \in {"final_answer", "error"}
                 /\ tool_calls' = tool_calls
          /\ (pc[r] = "yield_final" /\ pc'[r] # "yield_final") =>
                 /\ pc'[r] = "done"
                 /\ produced' = produced
                 /\ tool_calls' = tool_calls
          /\ pc'[r] = "await_tool" => NameOf(ActOn(action'[r]).tool_name) # FINAL_ANSWER_NAME
          /\ \A i \in 1..Len(produced'[r]) :
                 produced'[r][i].type \in {"tool_call", "tool_result"} =>
                     produced'[r][i].tool_name # FINAL_ANSWER_NAME
      ]_vars

\* after one call of echo the run decided final_answer, which is a name of
\* the remote catalog, and ended with the answer and one tool call in all
C37_Witness ==
    \E r \in RunIds :
        /\ FINAL_ANSWER_NAME \in RemoteTools
        /\ pc[r] = "done"
        /\ NamesFinalAnswer(action[r])
        /\ Last(produced[r]) = Ev("final_answer", "hi", NONE, JNull, NoResult)
        /\ tool_calls[r] = 1

====
